---- MODULE Spec2Model ----
(***************************************************************************)
(* Model of the screenshot server (src/server.py): the window listing      *)
(* tool list_windows with its two strategies, and the capture_screenshot   *)
(* tool with its backend fallback chain and the focus remember / restore   *)
(* pairing of WindowStateManager.                                          *)
(***************************************************************************)
EXTENDS Integers, Sequences, FiniteSets, TLC

VARIABLES
    ext_result,         \* outcome of the gdbus "Windows.List" call of list_windows
    ps_result,          \* outcome of the "ps aux" call of list_windows
    lw_pc,              \* position of the list_windows call: "idle" | "done"
    lw_out,             \* what list_windows handed to the Host
    callers,            \* the capture_screenshot calls the Host may have in flight
    call,               \* per caller: the frame of its capture_screenshot call
    previous_window,    \* WindowStateManager._previous_window (FocusState)
    portal_initialized, \* XDGPortalBackend._initialized
    windows_data,       \* the session bus: the windows Windows.List reports
    files,              \* SCREENSHOTS_DIR: path -> number of the request that wrote it
    now,                \* int(time.time())
    requests,           \* capture_screenshot calls started so far
    geo                 \* a _get_window_geometry_gnome call made on its own

lwvars == <<ext_result, ps_result, lw_pc, lw_out, geo>>

capvars == <<callers, call, previous_window, portal_initialized, windows_data,
             files, now, requests>>

vars == <<ext_result, ps_result, lw_pc, lw_out, callers, call, previous_window,
          portal_initialized, windows_data, files, now, requests, geo>>

(***************************************************************************)
(* Bounds of the model.                                                    *)
(***************************************************************************)
\* longest window list the session bus reports
MaxWins == 2
\* longest process table "ps aux" prints (header excluded)
MaxProcs == 2
\* capture_screenshot calls in one behaviour
MaxRequests == 2
\* last second of the clock (it starts at 0)
MaxTime == 1

(***************************************************************************)
(* Python values.                                                          *)
(***************************************************************************)
\* a key that is absent from a JSON object (numeric fields)
Missing == -1
\* a string key that is absent from a JSON object
NoClass == "<absent>"
\* Python None for string-valued slots
None == "<None>"

DigitChars == <<"0", "1", "2", "3", "4", "5", "6", "7", "8", "9">>

\* str(n) of a non-negative integer: its decimal digits
RECURSIVE Str(_)
Str(n) ==
    IF n < 10 THEN DigitChars[n + 1]
    ELSE Str(n \div 10) \o DigitChars[(n % 10) + 1]

Uppers == <<"A","B","C","D","E","F","G","H","I","J","K","L","M",
            "N","O","P","Q","R","S","T","U","V","W","X","Y","Z">>
Lowers == <<"a","b","c","d","e","f","g","h","i","j","k","l","m",
            "n","o","p","q","r","s","t","u","v","w","x","y","z">>

IsUpper(c) == \E i \in 1..Len(Uppers) : Uppers[i] = c
IsLower(c) == \E i \in 1..Len(Lowers) : Lowers[i] = c
IsCased(c) == IsUpper(c) \/ IsLower(c)

LowerChar(c) ==
    IF IsUpper(c) THEN Lowers[CHOOSE i \in 1..Len(Uppers) : Uppers[i] = c] ELSE c
UpperChar(c) ==
    IF IsLower(c) THEN Uppers[CHOOSE i \in 1..Len(Lowers) : Lowers[i] = c] ELSE c

\* str.lower() on a sequence of characters
LowerStr(s) == [i \in 1..Len(s) |-> LowerChar(s[i])]

\* str.title(): a cased character is upper-cased when the character before
\* it is not cased, and lower-cased otherwise
TitleStr(s) ==
    [i \in 1..Len(s) |->
        IF i > 1 /\ IsCased(s[i - 1]) THEN LowerChar(s[i]) ELSE UpperChar(s[i])]

\* command.split('/')[-1]: what follows the last '/'
LastSegment(s) ==
    LET slashes == {i \in 1..Len(s) : s[i] = "/"}
        last == IF slashes = {} THEN 0
                ELSE CHOOSE i \in slashes : \A j \in slashes : j <= i
    IN  SubSeq(s, last + 1, Len(s))

\* needle in hay
Contains(hay, needle) ==
    \E i \in 1..(Len(hay) - Len(needle) + 1) :
        SubSeq(hay, i, i + Len(needle) - 1) = needle

\* the characters of s as one string
RECURSIVE Join(_)
Join(s) == IF s = <<>> THEN "" ELSE s[1] \o Join(Tail(s))

\* the sub-sequence of s of the elements at the positions in keep, from
\* position i on, in order
RECURSIVE SelectIdx(_, _, _)
SelectIdx(s, keep, i) ==
    IF i > Len(s) THEN <<>>
    ELSE (IF i \in keep THEN <<s[i]>> ELSE <<>>) \o SelectIdx(s, keep, i + 1)

\* all sequences over S of length at most n
SeqUpTo(S, n) == UNION {[1..k -> S] : k \in 0..n}

(***************************************************************************)
(* Window: the data model handed to the Host.                              *)
(***************************************************************************)
Window(id, title) == [id |-> id, title |-> title]

\* what a function hands back: a value, or an exception
Returned(v) == [raised |-> FALSE, value |-> v]
Raised == [raised |-> TRUE, value |-> <<>>]

(***************************************************************************)
(* _list_windows_via_extension                                             *)
(***************************************************************************)
\* a faulty variant of IsNormalWindow: the window type is not looked at
IsNormalWindowFrameOnly(w) == w.frame_type = 0

\* window_data.get('frame_type') == 0 and window_data.get('window_type') == 0
IsNormalWindow(w) == w.frame_type = 0 /\ w.window_type = 0

\* Window(id=str(window_data['id']), title=window_data.get('wm_class', 'Unknown'))
ExtensionWindow(w) ==
    Window(Str(w.id), IF w.wm_class = NoClass THEN "Unknown" ELSE w.wm_class)

\* the loop over windows_data: window_data['id'] raises KeyError on a normal
\* window that has no id
ExtensionWindows(data) ==
    IF \E i \in 1..Len(data) : IsNormalWindow(data[i]) /\ data[i].id = Missing
    THEN Raised
    ELSE Returned(
            LET kept == SelectIdx(data, {i \in 1..Len(data) : IsNormalWindow(data[i])}, 1)
            IN  [i \in 1..Len(kept) |-> ExtensionWindow(kept[i])])

\* res is the outcome of subprocess.run(gdbus ... Windows.List, timeout=10):
\* a timeout raises, a non-zero exit raises, an output that is no tuple holding
\* a JSON array of objects raises, anything else is filtered and mapped
list_windows_via_extension(res) ==
    IF res.kind = "ok" THEN ExtensionWindows(res.data) ELSE Raised

(***************************************************************************)
(* _list_windows_via_processes                                             *)
(***************************************************************************)
gui_processes ==
    <<
      <<"f","i","r","e","f","o","x">>, <<"c","h","r","o","m","e">>, <<"c","h","r","o","m","i","u","m">>,
      <<"b","r","a","v","e">>, <<"o","p","e","r","a">>, <<"g","n","o","m","e","-","t","e","r","m","i","n","a","l">>,
      <<"k","o","n","s","o","l","e">>, <<"x","t","e","r","m">>, <<"a","l","a","c","r","i","t","t","y">>,
      <<"c","o","d","e">>, <<"c","o","d","i","u","m">>, <<"a","t","o","m">>,
      <<"s","u","b","l","i","m","e","_","t","e","x","t">>, <<"v","i","m">>, <<"e","m","a","c","s">>,
      <<"n","a","u","t","i","l","u","s">>, <<"d","o","l","p","h","i","n">>, <<"t","h","u","n","a","r">>,
      <<"r","a","n","g","e","r">>, <<"g","i","m","p">>, <<"i","n","k","s","c","a","p","e">>,
      <<"b","l","e","n","d","e","r">>, <<"d","a","r","k","t","a","b","l","e">>, <<"l","i","b","r","e","o","f","f","i","c","e">>,
      <<"w","r","i","t","e","r">>, <<"c","a","l","c">>, <<"i","m","p","r","e","s","s">>,
      <<"e","v","i","n","c","e">>, <<"o","k","u","l","a","r">>, <<"z","a","t","h","u","r","a">>,
      <<"v","l","c">>, <<"t","o","t","e","m">>, <<"m","p","v">>,
      <<"r","h","y","t","h","m","b","o","x">>, <<"d","i","s","c","o","r","d">>, <<"s","l","a","c","k">>,
      <<"t","e","l","e","g","r","a","m">>, <<"s","i","g","n","a","l">>, <<"t","h","u","n","d","e","r","b","i","r","d">>,
      <<"e","v","o","l","u","t","i","o","n">>, <<"c","l","a","w","s","-","m","a","i","l">>
    >>

\* process_name = command.split('/')[-1]
ProcessName(line) == LastSegment(line.command)

\* a line of at least 11 columns whose process name holds a catalogue name
IsGuiProcess(line) ==
    /\ line.columns >= 11
    /\ \E g \in 1..Len(gui_processes) :
            Contains(LowerStr(ProcessName(line)), gui_processes[g])

\* Window(id=parts[1], title=process_name.title())
ProcessWindow(line) == Window(line.pid, Join(TitleStr(ProcessName(line))))

\* a faulty variant of UniqueByTitle: the last window of each title is kept
UniqueByTitleKeepsLast(windows) ==
    SelectIdx(windows,
              {i \in 1..Len(windows) :
                    \A j \in (i + 1)..Len(windows) : windows[j].title # windows[i].title},
              1)

\* the seen_titles loop: the first window of each title is kept
UniqueByTitle(windows) ==
    SelectIdx(windows,
              {i \in 1..Len(windows) :
                    \A j \in 1..(i - 1) : windows[j].title # windows[i].title},
              1)

\* a faulty variant of list_windows_via_processes: a failed "ps aux" gives the
\* empty list
list_windows_via_processes_soft(res) ==
    IF res.kind = "ok"
    THEN LET gui == SelectIdx(res.lines,
                              {i \in 1..Len(res.lines) : IsGuiProcess(res.lines[i])}, 1)
             windows == [i \in 1..Len(gui) |-> ProcessWindow(gui[i])]
         IN  Returned(UniqueByTitle(windows))
    ELSE Returned(<<>>)

\* res is the outcome of subprocess.run(['ps', 'aux'], timeout=5)
list_windows_via_processes(res) ==
    IF res.kind = "ok"
    THEN LET gui == SelectIdx(res.lines,
                              {i \in 1..Len(res.lines) : IsGuiProcess(res.lines[i])}, 1)
             windows == [i \in 1..Len(gui) |-> ProcessWindow(gui[i])]
         IN  Returned(UniqueByTitle(windows))
    ELSE Raised

(***************************************************************************)
(* Inputs of the window listing.                                           *)
(***************************************************************************)
WindowEntries ==
    [id : {Missing, 7, 12}, wm_class : {NoClass, "Firefox"},
     frame_type : {0, 1}, window_type : {0, 1, Missing}]

ExtResults ==
    {[kind |-> k, data |-> <<>>] : k \in {"timeout", "nonzero", "malformed"}}
    \cup {[kind |-> "ok", data |-> d] : d \in SeqUpTo(WindowEntries, MaxWins)}

ProcLines ==
    { [pid |-> "101", columns |-> 11,
       command |-> <<"/","u","s","r","/","b","i","n","/","f","i","r","e","f","o","x">>],
      [pid |-> "102", columns |-> 12,
       command |-> <<"/","o","p","t","/","F","i","r","e","f","o","x">>],
      [pid |-> "103", columns |-> 11, command |-> <<"b","a","s","h">>],
      [pid |-> "104", columns |-> 11, command |-> <<"v","i","m">>],
      [pid |-> "105", columns |-> 10, command |-> <<"v","i","m">>] }

PsResults ==
    {[kind |-> k, lines |-> <<>>] : k \in {"timeout", "nonzero"}}
    \cup {[kind |-> "ok", lines |-> l] : l \in SeqUpTo(ProcLines, MaxProcs)}

(***************************************************************************)
(* list_windows                                                            *)
(***************************************************************************)
\* _list_windows_via_processes on each outcome of "ps aux" the model draws,
\* computed once
RECURSIVE ScanTable(_)
ScanTable(S) ==
    IF S = {} THEN <<>>
    ELSE LET res == CHOOSE r \in S : TRUE
         IN  (res :> list_windows_via_processes(res)) @@ ScanTable(S \ {res})

ProcessScanOf == ScanTable(PsResults)

\* a faulty variant of list_windows: the windows the extension listed before it
\* raised are put before those of the process scan
list_windows_merging(ext, ps) ==
    LET first == list_windows_via_extension(ext)
        second == ProcessScanOf[ps]
        partial == SelectIdx(ext.data,
                             {i \in 1..Len(ext.data) :
                                    IsNormalWindow(ext.data[i])
                                    /\ ext.data[i].id # Missing}, 1)
    IN  IF ~first.raised THEN [kind |-> "list", list |-> first.value, via |-> "extension"]
        ELSE IF ~second.raised
             THEN [kind |-> "list",
                   list |-> [i \in 1..Len(partial) |-> ExtensionWindow(partial[i])]
                            \o second.value,
                   via |-> "processes"]
        ELSE [kind |-> "error", list |-> <<>>, via |-> "none"]

\* try the extension; on any exception try the process scan; when that
\* raises too, raise "Unable to list windows"
list_windows(ext, ps) ==
    LET first == list_windows_via_extension(ext)
        second == ProcessScanOf[ps]
    IN  IF ~first.raised THEN [kind |-> "list", list |-> first.value, via |-> "extension"]
        ELSE IF ~second.raised THEN [kind |-> "list", list |-> second.value, via |-> "processes"]
        ELSE [kind |-> "error", list |-> <<>>, via |-> "none"]

NoOutput == [kind |-> "none", list |-> <<>>, via |-> "none"]

\* "ps aux" was not run
NotCalled == [kind |-> "notcalled", lines |-> <<>>]

(***************************************************************************)
(* The session bus, the clock and the capture storage directory.           *)
(***************************************************************************)
\* rect = window_data.get('rect', {}): the empty dict
EmptyRect == [x |-> Missing, y |-> Missing, width |-> Missing, height |-> Missing]

BusWindow(id, ft, focus, rect) ==
    [id |-> id, wm_class |-> "App", frame_type |-> ft, window_type |-> 0,
     focus |-> focus, rect |-> rect]

Rect1 == [x |-> 10, y |-> 20, width |-> 300, height |-> 200]

Rect2 == [x |-> 0, y |-> 5, width |-> 64, height |-> 48]

\* a rect the bus reports with no width: {x: 10, y: 20, height: 200}
PartialRect == [x |-> 10, y |-> 20, width |-> Missing, height |-> 200]

\* a rect of no area: {x: 10, y: 20, width: 0, height: 200}
ZeroRect == [x |-> 10, y |-> 20, width |-> 0, height |-> 200]

\* the window lists the session bus starts with
BusStates ==
    { <<BusWindow(12, 0, TRUE, EmptyRect), BusWindow(7, 0, FALSE, Rect1)>>,
      <<BusWindow(7, 1, FALSE, Rect1), BusWindow(12, 0, FALSE, Rect1)>>,
      <<BusWindow(Missing, 0, TRUE, EmptyRect), BusWindow(7, 0, FALSE, EmptyRect)>>,
      <<BusWindow(7, 0, TRUE, ZeroRect)>>,
      <<BusWindow(7, 0, FALSE, PartialRect), BusWindow(12, 0, TRUE, Rect2)>>,
      <<>> }

\* the window ids the Host passes; None is the call without a window id
HostIds == {None, "7", "104"}

\* the session bus knows a window of this id
KnownWindow(data, wid) ==
    \E i \in 1..Len(data) : data[i].id # Missing /\ Str(data[i].id) = wid

\* Windows.Activate(wid) succeeded: wid has the focus, no other window has
Activated(data, wid) ==
    [i \in 1..Len(data) |->
        [data[i] EXCEPT !.focus = (data[i].id # Missing /\ Str(data[i].id) = wid)]]

\* f"screenshot_window_{window_id}_{timestamp}.png"
WindowPath(wid, ts) == "screenshot_window_" \o wid \o "_" \o Str(ts) \o ".png"
\* f"screenshot_full_{timestamp}.png"
FullPath(ts) == "screenshot_full_" \o Str(ts) \o ".png"

\* filepath.exists()
Exists(fs, path) == path \in DOMAIN fs

\* a capture tool wrote path during request r
Written(fs, path, r) ==
    [q \in (DOMAIN fs) \cup {path} |-> IF q = path THEN r ELSE fs[q]]

(***************************************************************************)
(* WindowStateManager                                                      *)
(***************************************************************************)
\* if self._previous_window: / if window_id:
Truthy(v) == v # None /\ v # ""

\* a faulty variant of get_active_window: the focus flag is not looked at
get_active_window_first_normal(kind, data) ==
    LET normal == {i \in 1..Len(data) : IsNormalWindow(data[i])}
        pick == IF normal # {} THEN CHOOSE i \in normal : \A j \in normal : i <= j
                ELSE 0
    IN  IF kind # "ok" \/ pick = 0 THEN None
        ELSE IF data[pick].id = Missing THEN None
        ELSE Str(data[pick].id)

\* get_active_window: the first window flagged focus, else the first normal
\* window; None on any failure (window_data['id'] raises KeyError)
get_active_window(kind, data) ==
    LET focused == {i \in 1..Len(data) : data[i].focus}
        normal == {i \in 1..Len(data) : IsNormalWindow(data[i])}
        first(S) == CHOOSE i \in S : \A j \in S : i <= j
        pick == IF focused # {} THEN first(focused)
                ELSE IF normal # {} THEN first(normal) ELSE 0
    IN  IF kind # "ok" \/ pick = 0 THEN None
        ELSE IF data[pick].id = Missing THEN None
        ELSE Str(data[pick].id)

(***************************************************************************)
(* _get_window_geometry_gnome                                              *)
(***************************************************************************)
\* f"{rect['x']},{rect['y']} {rect['width']}x{rect['height']}"
GeometryString(rect) ==
    Str(rect.x) \o "," \o Str(rect.y) \o " " \o Str(rect.width) \o "x" \o Str(rect.height)

\* str(window_data.get('id')): an entry without id gives str(None)
IdKey(id) == IF id = Missing THEN "None" ELSE Str(id)

\* a faulty variant of get_window_geometry_gnome: the id is not compared, the
\* first entry that has a rect gives the geometry
get_window_geometry_gnome_first(kind, data, wid) ==
    LET match == {i \in 1..Len(data) : data[i].rect # EmptyRect}
        pick == IF match = {} THEN 0 ELSE CHOOSE i \in match : \A j \in match : i <= j
    IN  IF kind # "ok" \/ pick = 0 THEN None
        ELSE IF \E f \in {"x", "y", "width", "height"} : data[pick].rect[f] = Missing
             THEN None
        ELSE GeometryString(data[pick].rect)

\* the first entry with str(id) == window_id and a non-empty rect gives the
\* geometry; a rect lacking a key raises KeyError, caught as None
get_window_geometry_gnome(kind, data, wid) ==
    LET match == {i \in 1..Len(data) :
                    /\ IdKey(data[i].id) = wid
                    /\ data[i].rect # EmptyRect}
        pick == IF match = {} THEN 0 ELSE CHOOSE i \in match : \A j \in match : i <= j
    IN  IF kind # "ok" \/ pick = 0 THEN None
        ELSE IF \E f \in {"x", "y", "width", "height"} : data[pick].rect[f] = Missing
             THEN None
        ELSE GeometryString(data[pick].rect)

(***************************************************************************)
(* The frame of one capture_screenshot call.                               *)
(***************************************************************************)
\* BackendManager.backends, in order
Backends == <<"portal", "native">>

\* GNOMEShellBackend.capture_screen: methods
ScreenMethods == <<"grim_full", "gnome_screenshot_full", "import_full">>

\* GNOMEShellBackend.capture_window: methods
WindowMethods == <<"gnome_screenshot_window", "grim_window_interactive">>

Unprobed == [b \in {"portal", "native"} |-> "unprobed"]

\* what each backend's capture returned in the manager call under way
NotInvoked == [b \in {"portal", "native"} |-> "none"]

NoOutcome == [kind |-> "none", path |-> None, content |-> 0]

IdleCall ==
    [pc |-> "idle", req |-> 0, window_id |-> None, filepath |-> None,
     mode |-> "none", backend |-> 1, method |-> 1, geometry |-> None,
     avail |-> Unprobed, captured |-> NotInvoked, fellback |-> FALSE,
     remembered |-> None, restored |-> FALSE, trace |-> <<>>, last |-> "-",
     tmp_deleted |-> FALSE, denied |-> FALSE, outcome |-> NoOutcome]

\* one external call: the function that made it, what it called, on what, how
\* it ended
Event(by, op, arg, res) == [by |-> by, op |-> op, arg |-> arg, res |-> res]

\* an outcome as the trace keeps it: the kinds of failure are one failure
Coarse(res) ==
    IF res \in {"nonzero", "timeout", "malformed", "denied", "exception", "nonfile",
                "copyfail"}
    THEN "fail" ELSE res

Log(c, by, op, arg, res) == Append(c.trace, Event(by, op, arg, Coarse(res)))

\* outcomes of the external calls
BusOutcomes == {"ok", "nonzero", "timeout", "malformed"}
ActivateOutcomes == {"ok", "nonzero", "timeout"}
ToolOutcomes == {"wrote", "nofile", "nonzero", "timeout"}
SlurpOutcomes == {"ok", "nonzero", "timeout"}
PortalOutcomes == {"copied", "denied", "exception", "nonfile", "copyfail", "timeout"}

(***************************************************************************)
(* BackendManager.capture_screen / capture_window: the loop over backends  *)
(***************************************************************************)
\* the backend's capture returned ok (or raised, which counts as False):
\* "return True", or "continue" with the next backend, or "return False"
NextBackend(c) ==
    IF c.backend < Len(Backends)
    THEN [c EXCEPT !.backend = c.backend + 1, !.pc = "probe"]
    ELSE [c EXCEPT !.pc = "exhausted"]

\* a faulty variant of BackendReturns: a failed backend ends the loop
BackendReturnsFirstOnly(c, ok) ==
    IF ok THEN [c EXCEPT !.captured[Backends[c.backend]] = "true", !.pc = "captured"]
    ELSE [c EXCEPT !.captured[Backends[c.backend]] = "false", !.pc = "exhausted"]

BackendReturns(c, ok) ==
    IF ok THEN [c EXCEPT !.captured[Backends[c.backend]] = "true", !.pc = "captured"]
    ELSE NextBackend([c EXCEPT !.captured[Backends[c.backend]] = "false"])

\* a faulty variant of AfterProbe: the capture runs whatever the probe said
AfterProbeIgnored(c, available) ==
    [c EXCEPT !.pc = IF Backends[c.backend] = "portal" THEN "portal_capture"
                     ELSE IF c.mode = "window" THEN "native_geometry"
                     ELSE "native_screen_method",
              !.method = 1]

\* if backend.is_available(): the capture of that backend runs next; else the
\* loop moves on
AfterProbe(c, available) ==
    IF available
    THEN [c EXCEPT !.pc = IF Backends[c.backend] = "portal" THEN "portal_capture"
                          ELSE IF c.mode = "window" THEN "native_geometry"
                          ELSE "native_screen_method",
                   !.method = 1]
    ELSE NextBackend(c)

(***************************************************************************)
(* Actions.                                                                *)
(***************************************************************************)
Set(p, c) == call' = [call EXCEPT ![p] = c]

\* a faulty variant of CaptureScreenshot: the window capture starts without
\* remember_active_window having run
CaptureScreenshotSkipsRemember(p, wid) ==
    /\ call[p].pc \in {"idle", "done"}
    /\ requests < MaxRequests
    /\ requests' = requests + 1
    /\ Set(p, [IdleCall EXCEPT !.req = requests + 1, !.window_id = wid,
                               !.pc = IF Truthy(wid) THEN "window_begin" ELSE "full_begin"])
    /\ UNCHANGED lwvars
    /\ UNCHANGED <<callers, previous_window, portal_initialized, windows_data, files, now>>

\* the Host calls capture_screenshot(window_id)
CaptureScreenshot(p, wid) ==
    /\ call[p].pc \in {"idle", "done"}
    /\ requests < MaxRequests
    /\ requests' = requests + 1
    /\ Set(p, [IdleCall EXCEPT !.req = requests + 1, !.window_id = wid,
                               !.pc = IF Truthy(wid) THEN "remember" ELSE "full_begin"])
    /\ UNCHANGED lwvars
    /\ UNCHANGED <<callers, previous_window, portal_initialized, windows_data, files, now>>

\* a faulty variant of Remember: when the lookup finds no window the slot is
\* left as it is
RememberKeepsOnFailure(p) ==
    /\ call[p].pc = "remember"
    /\ \E kind \in BusOutcomes :
        /\ previous_window' =
                IF Truthy(get_active_window(kind, windows_data))
                THEN get_active_window(kind, windows_data) ELSE previous_window
        /\ Set(p, [call[p] EXCEPT
                    !.trace = Log(call[p], "remember_active_window", "list", "-", kind),
                    !.last = kind,
                    !.remembered = get_active_window(kind, windows_data),
                    !.pc = "window_begin"])
    /\ UNCHANGED lwvars
    /\ UNCHANGED <<callers, portal_initialized, windows_data, files, now, requests>>

\* window_state_manager.remember_active_window()
Remember(p) ==
    /\ call[p].pc = "remember"
    /\ \E kind \in BusOutcomes :
        /\ previous_window' = get_active_window(kind, windows_data)
        /\ Set(p, [call[p] EXCEPT
                    !.trace = Log(call[p], "remember_active_window", "list", "-", kind),
                    !.last = kind,
                    !.remembered = get_active_window(kind, windows_data),
                    !.pc = "window_begin"])
    /\ UNCHANGED lwvars
    /\ UNCHANGED <<callers, portal_initialized, windows_data, files, now, requests>>

\* a faulty variant of BeginWindow: the full screen is captured at once, in
\* place of the window
BeginWindowAsFull(p) ==
    /\ call[p].pc = "window_begin"
    /\ Set(p, [call[p] EXCEPT !.filepath = FullPath(now),
                              !.mode = "screen", !.backend = 1, !.avail = Unprobed,
                              !.captured = NotInvoked,
                              !.pc = "probe"])
    /\ UNCHANGED lwvars
    /\ UNCHANGED <<callers, previous_window, portal_initialized, windows_data, files,
                   now, requests>>

\* _capture_window_by_id_no_restore: the destination path, then
\* backend_manager.capture_window
BeginWindow(p) ==
    /\ call[p].pc = "window_begin"
    /\ Set(p, [call[p] EXCEPT !.filepath = WindowPath(call[p].window_id, now),
                              !.mode = "window", !.backend = 1, !.avail = Unprobed,
                              !.captured = NotInvoked,
                              !.pc = "probe"])
    /\ UNCHANGED lwvars
    /\ UNCHANGED <<callers, previous_window, portal_initialized, windows_data, files,
                   now, requests>>

\* _capture_full_screen: the destination path, then backend_manager.capture_screen
BeginFull(p) ==
    /\ call[p].pc = "full_begin"
    /\ Set(p, [call[p] EXCEPT !.filepath = FullPath(now),
                              !.mode = "screen", !.backend = 1, !.avail = Unprobed,
                              !.captured = NotInvoked,
                              !.pc = "probe"])
    /\ UNCHANGED lwvars
    /\ UNCHANGED <<callers, previous_window, portal_initialized, windows_data, files,
                   now, requests>>

\* backend.is_available() of the loop's current backend.  The portal backend
\* answers True without a probe once it was initialized; the native backend
\* runs its tools' --version each time.  "up" is what the environment would
\* answer now (the portal service is reachable, a tool is installed); the
\* frame keeps it in "last" next to the answer in the trace.
Probe(p) ==
    /\ call[p].pc = "probe"
    /\ LET b == Backends[call[p].backend]
       IN  \E up \in BOOLEAN :
            LET available == IF b = "portal" THEN portal_initialized \/ up ELSE up
                c == [call[p] EXCEPT
                        !.avail[b] = IF available THEN "yes" ELSE "no",
                        !.trace = Log(call[p], "BackendManager", "is_available", b,
                                      IF available THEN "yes" ELSE "no"),
                    !.last = IF up THEN "up" ELSE "down"]
            IN  /\ portal_initialized' =
                        IF b = "portal" THEN available ELSE portal_initialized
                /\ Set(p, AfterProbe(c, available))
    /\ UNCHANGED lwvars
    /\ UNCHANGED <<callers, previous_window, windows_data, files, now, requests>>

\* a faulty variant of PortalCapture: after the copy the destination is
\* unlinked in place of the portal's temporary file
PortalCaptureUnlinksDestination(p) ==
    /\ call[p].pc = "portal_capture"
    /\ \E res \in PortalOutcomes, unlinked \in BOOLEAN :
        LET c == [call[p] EXCEPT
                    !.trace = Log(call[p], "XDGPortalBackend",
                                  IF call[p].mode = "window" THEN "portal_window"
                                  ELSE "portal_screen", "-", res),
                    !.last = res,
                    !.denied = (res = "denied" /\ call[p].mode = "window")]
        IN  /\ files' = IF res = "copied" /\ unlinked
                        THEN [q \in (DOMAIN files) \ {call[p].filepath} |-> files[q]]
                        ELSE IF res = "copied"
                        THEN Written(files, call[p].filepath, call[p].req) ELSE files
            /\ Set(p, BackendReturns(c, res = "copied"))
    /\ UNCHANGED lwvars
    /\ UNCHANGED <<callers, previous_window, portal_initialized, windows_data, now,
                   requests>>

\* a faulty variant of PortalCapture: an exception or a timeout of the
\* Screenshot request is not caught, it is raised to the backend manager
PortalCaptureRaises(p) ==
    /\ call[p].pc = "portal_capture"
    /\ \E res \in PortalOutcomes, unlinked \in BOOLEAN :
        LET c == [call[p] EXCEPT
                    !.trace = Log(call[p], "XDGPortalBackend",
                                  IF call[p].mode = "window" THEN "portal_window"
                                  ELSE "portal_screen", "-", res),
                    !.last = res,
                    !.tmp_deleted = (res = "copied" /\ unlinked),
                    !.denied = (res = "denied" /\ call[p].mode = "window")]
        IN  /\ files' = IF res = "copied"
                        THEN Written(files, call[p].filepath, call[p].req) ELSE files
            /\ Set(p, IF res \in {"exception", "timeout"}
                      THEN NextBackend([c EXCEPT !.captured["portal"] = "raised"])
                      ELSE BackendReturns(c, res = "copied"))
    /\ UNCHANGED lwvars
    /\ UNCHANGED <<callers, previous_window, portal_initialized, windows_data, now,
                   requests>>

\* XDGPortalBackend.capture_screen / capture_window: one Screenshot request;
\* True only when the file the portal names was copied to the destination;
\* _copy_portal_screenshot then unlinks the portal's temporary file (outside
\* the storage directory), and a failure of that unlink is only logged.  The
\* frame keeps in "denied" whether the latest request the call sent the
\* portal was the one of its window capture and was denied.
PortalCapture(p) ==
    /\ call[p].pc = "portal_capture"
    /\ \E res \in PortalOutcomes, unlinked \in BOOLEAN :
        LET c == [call[p] EXCEPT
                    !.trace = Log(call[p], "XDGPortalBackend",
                                  IF call[p].mode = "window" THEN "portal_window"
                                  ELSE "portal_screen", "-", res),
                    !.last = res,
                    !.tmp_deleted = (res = "copied" /\ unlinked),
                    !.denied = (res = "denied" /\ call[p].mode = "window")]
        IN  /\ files' = IF res = "copied"
                        THEN Written(files, call[p].filepath, call[p].req) ELSE files
            /\ Set(p, BackendReturns(c, res = "copied"))
    /\ UNCHANGED lwvars
    /\ UNCHANGED <<callers, previous_window, portal_initialized, windows_data, now,
                   requests>>

(***************************************************************************)
(* GNOMEShellBackend                                                       *)
(***************************************************************************)
\* a faulty variant of ToolRaised: the timeout of a tool is not raised, the
\* tool counts as having returned
ToolRaisedOnExitOnly(res) == res = "nonzero"

\* a capture tool ran: it raised (non-zero exit, timeout), or it returned and
\* filepath.exists() decides
ToolRaised(res) == res \in {"nonzero", "timeout"}

\* a faulty variant of AfterMethod: the first method that fails ends the loop
AfterMethodFirstOnly(c, fs, res, count, again) ==
    IF ~ToolRaised(res) /\ Exists(fs, c.filepath) THEN BackendReturns(c, TRUE)
    ELSE BackendReturns(c, FALSE)

\* the methods loop: "return True" when the tool returned and the file exists;
\* else the next method; after the last one "return False"
AfterMethod(c, fs, res, count, again) ==
    IF ~ToolRaised(res) /\ Exists(fs, c.filepath) THEN BackendReturns(c, TRUE)
    ELSE IF c.method < count THEN [c EXCEPT !.method = c.method + 1, !.pc = again]
    ELSE BackendReturns(c, FALSE)

\* capture_screen: grim, gnome-screenshot, import, each in its own try
NativeScreenMethod(p) ==
    /\ call[p].pc = "native_screen_method"
    /\ \E res \in ToolOutcomes :
        LET fs == IF res = "wrote" THEN Written(files, call[p].filepath, call[p].req)
                  ELSE files
            c == [call[p] EXCEPT
                    !.trace = Log(call[p], "GNOMEShellBackend.capture_screen",
                                  ScreenMethods[call[p].method], "-", res),
                    !.last = res]
        IN  /\ files' = fs
            /\ Set(p, AfterMethod(c, fs, res, Len(ScreenMethods), "native_screen_method"))
    /\ UNCHANGED lwvars
    /\ UNCHANGED <<callers, previous_window, portal_initialized, windows_data, now,
                   requests>>

\* a faulty variant of NativeGeometry: a failed session-bus call raises out of
\* the lookup and ends capture_window in its outer except
NativeGeometryRaises(p) ==
    /\ call[p].pc = "native_geometry"
    /\ \E kind \in BusOutcomes :
        LET g == get_window_geometry_gnome(kind, windows_data, call[p].window_id)
            c == [call[p] EXCEPT
                    !.geometry = g,
                    !.trace = Log(call[p], "_get_window_geometry_gnome", "list", "-", kind),
                    !.last = kind]
        IN  Set(p, IF kind # "ok" THEN BackendReturns(c, FALSE)
                   ELSE [c EXCEPT !.pc = IF Truthy(g) THEN "native_grim_geometry"
                                         ELSE "native_focus"])
    /\ UNCHANGED lwvars
    /\ UNCHANGED <<callers, previous_window, portal_initialized, windows_data, files,
                   now, requests>>

\* capture_window: geometry = _get_window_geometry_gnome(window_id)
NativeGeometry(p) ==
    /\ call[p].pc = "native_geometry"
    /\ \E kind \in BusOutcomes :
        LET g == get_window_geometry_gnome(kind, windows_data, call[p].window_id)
        IN  Set(p, [call[p] EXCEPT
                    !.geometry = g,
                    !.trace = Log(call[p], "_get_window_geometry_gnome", "list", "-", kind),
                    !.last = kind,
                    !.pc = IF Truthy(g) THEN "native_grim_geometry" ELSE "native_focus"])
    /\ UNCHANGED lwvars
    /\ UNCHANGED <<callers, previous_window, portal_initialized, windows_data, files,
                   now, requests>>

\* a faulty variant of AfterGrimGeometry: the file the region capture wrote is
\* not looked at, the focus-based path runs after every region capture that
\* returned
AfterGrimGeometryAlwaysFocuses(c, fs, res) ==
    IF ToolRaised(res) THEN BackendReturns(c, FALSE)
    ELSE [c EXCEPT !.pc = "native_focus"]

\* what follows _try_grim_with_geometry(filepath, geometry): it is called
\* outside the methods' try, so its exception ends capture_window ("return
\* False" of the outer except); when it returned, filepath.exists() decides
AfterGrimGeometry(c, fs, res) ==
    IF ToolRaised(res) THEN BackendReturns(c, FALSE)
    ELSE IF Exists(fs, c.filepath) THEN BackendReturns(c, TRUE)
    ELSE [c EXCEPT !.pc = "native_focus"]

\* capture_window: the exact-geometry grim
NativeGrimGeometry(p) ==
    /\ call[p].pc = "native_grim_geometry"
    /\ \E res \in ToolOutcomes :
        LET fs == IF res = "wrote" THEN Written(files, call[p].filepath, call[p].req)
                  ELSE files
            c == [call[p] EXCEPT
                    !.trace = Log(call[p], "GNOMEShellBackend.capture_window",
                                  "grim_with_geometry", call[p].geometry, res),
                    !.last = res]
        IN  /\ files' = fs
            /\ Set(p, AfterGrimGeometry(c, fs, res))
    /\ UNCHANGED lwvars
    /\ UNCHANGED <<callers, previous_window, portal_initialized, windows_data, now,
                   requests>>

\* a variant of ActivateResults that is not the session bus: an activation
\* can succeed on an id the bus does not list
ActivateResultsAnyId(data, wid) == ActivateOutcomes

\* the outcomes of Windows.Activate(wid): it succeeds only on a window the
\* session bus knows
ActivateResults(data, wid) ==
    IF KnownWindow(data, wid) THEN ActivateOutcomes ELSE ActivateOutcomes \ {"ok"}

\* capture_window: _try_focus_window(window_id), which raises when the
\* activation failed; the exception ends capture_window
NativeFocus(p) ==
    /\ call[p].pc = "native_focus"
    /\ \E res \in ActivateResults(windows_data, call[p].window_id) :
        LET c == [call[p] EXCEPT
                    !.trace = Log(call[p], "GNOMEShellBackend.capture_window",
                                  "activate", call[p].window_id, res),
                    !.last = res]
        IN  /\ windows_data' = IF res = "ok"
                               THEN Activated(windows_data, call[p].window_id)
                               ELSE windows_data
            /\ Set(p, IF res = "ok"
                      THEN [c EXCEPT !.method = 1, !.pc = "native_window_method"]
                      ELSE BackendReturns(c, FALSE))
    /\ UNCHANGED lwvars
    /\ UNCHANGED <<callers, previous_window, portal_initialized, files, now, requests>>

\* capture_window: the methods loop; gnome-screenshot --window, then slurp
\* (whose failure raises inside the loop's try)
NativeWindowMethod(p) ==
    /\ call[p].pc = "native_window_method"
    /\ \/ /\ WindowMethods[call[p].method] = "gnome_screenshot_window"
          /\ \E res \in ToolOutcomes :
                LET fs == IF res = "wrote"
                          THEN Written(files, call[p].filepath, call[p].req) ELSE files
                    c == [call[p] EXCEPT
                            !.trace = Log(call[p], "GNOMEShellBackend.capture_window",
                                          "gnome_screenshot_window", "-", res),
                    !.last = res]
                IN  /\ files' = fs
                    /\ Set(p, AfterMethod(c, fs, res, Len(WindowMethods),
                                          "native_window_method"))
       \/ /\ WindowMethods[call[p].method] = "grim_window_interactive"
          /\ \E res \in SlurpOutcomes :
                LET c == [call[p] EXCEPT
                            !.trace = Log(call[p], "GNOMEShellBackend.capture_window",
                                          "slurp", "-", res),
                    !.last = res]
                IN  /\ files' = files
                    /\ Set(p, IF res = "ok" THEN [c EXCEPT !.pc = "native_slurp_grim"]
                              ELSE AfterMethod(c, files, "nonzero", Len(WindowMethods),
                                               "native_window_method"))
    /\ UNCHANGED lwvars
    /\ UNCHANGED <<callers, previous_window, portal_initialized, windows_data, now,
                   requests>>

\* _try_grim_window_interactive: grim on the geometry slurp printed
NativeSlurpGrim(p) ==
    /\ call[p].pc = "native_slurp_grim"
    /\ \E res \in ToolOutcomes :
        LET fs == IF res = "wrote" THEN Written(files, call[p].filepath, call[p].req)
                  ELSE files
            c == [call[p] EXCEPT
                    !.trace = Log(call[p], "GNOMEShellBackend.capture_window",
                                  "grim_with_geometry", "slurp", res),
                    !.last = res]
        IN  /\ files' = fs
            /\ Set(p, AfterMethod(c, fs, res, Len(WindowMethods), "native_window_method"))
    /\ UNCHANGED lwvars
    /\ UNCHANGED <<callers, previous_window, portal_initialized, windows_data, now,
                   requests>>

(***************************************************************************)
(* _capture_window_by_id_no_restore, _capture_full_screen: after the       *)
(* backend manager returned                                                *)
(***************************************************************************)
\* the manager returned True: open(filepath), read, encode, return
ReadArtifact(p) ==
    /\ call[p].pc = "captured"
    /\ Set(p, [call[p] EXCEPT
                !.outcome = [kind |-> "image", path |-> call[p].filepath,
                             content |-> files[call[p].filepath]],
                !.pc = "finally"])
    /\ UNCHANGED lwvars
    /\ UNCHANGED <<callers, previous_window, portal_initialized, windows_data, files,
                   now, requests>>

\* a faulty variant of FallBackToFullScreen: a failed window capture raises
FallBackRaises(p) ==
    /\ call[p].pc = "exhausted"
    /\ call[p].mode = "window"
    /\ Set(p, [call[p] EXCEPT
                !.outcome = [kind |-> "error", path |-> None, content |-> 0],
                !.pc = "finally"])
    /\ UNCHANGED lwvars
    /\ UNCHANGED <<callers, previous_window, portal_initialized, windows_data, files,
                   now, requests>>

\* the manager returned False to a window capture:
\* return _capture_full_screen(include_cursor)
FallBackToFullScreen(p) ==
    /\ call[p].pc = "exhausted"
    /\ call[p].mode = "window"
    /\ Set(p, [call[p] EXCEPT !.fellback = TRUE, !.trace = <<>>, !.last = "-",
                              !.geometry = None, !.pc = "full_begin"])
    /\ UNCHANGED lwvars
    /\ UNCHANGED <<callers, previous_window, portal_initialized, windows_data, files,
                   now, requests>>

\* a faulty variant of RaiseAllFailed: an empty image is returned
RaiseAllFailedReturnsEmpty(p) ==
    /\ call[p].pc = "exhausted"
    /\ call[p].mode = "screen"
    /\ Set(p, [call[p] EXCEPT
                !.outcome = [kind |-> "image", path |-> None, content |-> 0],
                !.pc = "finally"])
    /\ UNCHANGED lwvars
    /\ UNCHANGED <<callers, previous_window, portal_initialized, windows_data, files,
                   now, requests>>

\* the manager returned False to a full-screen capture: RuntimeError("All
\* screenshot methods failed ..."), re-raised to the Host by capture_screenshot
RaiseAllFailed(p) ==
    /\ call[p].pc = "exhausted"
    /\ call[p].mode = "screen"
    /\ Set(p, [call[p] EXCEPT
                !.outcome = [kind |-> "error", path |-> None, content |-> 0],
                !.pc = "finally"])
    /\ UNCHANGED lwvars
    /\ UNCHANGED <<callers, previous_window, portal_initialized, windows_data, files,
                   now, requests>>

(***************************************************************************)
(* capture_screenshot: the finally block                                   *)
(***************************************************************************)
\* restore_previous_window sets the slot to None after _try_focus_window
\* returned; when that raised, the except branch leaves the slot as it is
SlotAfterRestore(slot, res) == IF res = "ok" THEN None ELSE slot

\* a faulty variant of RestoreArgument: the capture's target is activated
RestoreArgumentIsTarget(slot, target) == target

\* _try_focus_window(self._previous_window): the window restore activates
RestoreArgument(slot, target) == slot

\* a variant of restore_previous_window that is not the code: each call
\* restores the window its own remember stored, and the slot is not used
restore_previous_window_own(p) ==
    IF Truthy(call[p].remembered)
    THEN \E res \in ActivateResults(windows_data, call[p].remembered) :
            /\ windows_data' = IF res = "ok"
                               THEN Activated(windows_data, call[p].remembered)
                               ELSE windows_data
            /\ previous_window' = previous_window
            /\ Set(p, [call[p] EXCEPT
                        !.trace = Log(call[p], "restore_previous_window", "activate",
                                      call[p].remembered, res),
                        !.last = res,
                        !.restored = TRUE,
                        !.pc = "done"])
    ELSE /\ Set(p, [call[p] EXCEPT !.restored = TRUE, !.pc = "done"])
         /\ UNCHANGED <<windows_data, previous_window>>

\* a faulty variant of restore_previous_window: a failed activation is tried
\* a second time
restore_previous_window_retrying(p) ==
    IF Truthy(previous_window)
    THEN \E res \in ActivateResults(windows_data, previous_window) :
            /\ windows_data' = IF res = "ok" THEN Activated(windows_data, previous_window)
                               ELSE windows_data
            /\ previous_window' = SlotAfterRestore(previous_window, res)
            /\ Set(p, [call[p] EXCEPT
                        !.trace = IF res = "ok"
                                  THEN Log(call[p], "restore_previous_window", "activate",
                                           previous_window, res)
                                  ELSE Append(Log(call[p], "restore_previous_window",
                                                  "activate", previous_window, res),
                                              Event("restore_previous_window", "activate",
                                                    previous_window, "fail")),
                        !.last = res,
                        !.restored = TRUE,
                        !.pc = "done"])
    ELSE /\ Set(p, [call[p] EXCEPT !.restored = TRUE, !.pc = "done"])
         /\ UNCHANGED <<windows_data, previous_window>>

\* window_state_manager.restore_previous_window(): one activation when the
\* slot holds an id, none when it does not
restore_previous_window(p) ==
    IF Truthy(previous_window)
    THEN LET w == RestoreArgument(previous_window, call[p].window_id)
         IN  \E res \in ActivateResults(windows_data, w) :
                /\ windows_data' = IF res = "ok" THEN Activated(windows_data, w)
                                   ELSE windows_data
                /\ previous_window' = SlotAfterRestore(previous_window, res)
                /\ Set(p, [call[p] EXCEPT
                            !.trace = Log(call[p], "restore_previous_window", "activate",
                                          w, res),
                            !.last = res,
                            !.restored = TRUE,
                            !.pc = "done"])
    ELSE /\ Set(p, [call[p] EXCEPT !.restored = TRUE, !.pc = "done"])
         /\ UNCHANGED <<windows_data, previous_window>>

\* a faulty variant of Finally: restore_previous_window runs after every
\* call, the full-screen ones too
FinallyAlwaysRestores(p) ==
    /\ call[p].pc = "finally"
    /\ restore_previous_window(p)
    /\ UNCHANGED lwvars
    /\ UNCHANGED <<callers, portal_initialized, files, now, requests>>

\* a faulty variant of Finally: the restore is skipped when the capture raised
FinallySkipsOnError(p) ==
    /\ call[p].pc = "finally"
    /\ IF Truthy(call[p].window_id) /\ call[p].outcome.kind # "error"
       THEN restore_previous_window(p)
       ELSE /\ Set(p, [call[p] EXCEPT !.pc = "done"])
            /\ UNCHANGED <<windows_data, previous_window>>
    /\ UNCHANGED lwvars
    /\ UNCHANGED <<callers, portal_initialized, files, now, requests>>

\* finally: if window_id: window_state_manager.restore_previous_window()
Finally(p) ==
    /\ call[p].pc = "finally"
    /\ IF Truthy(call[p].window_id)
       THEN restore_previous_window(p)
       ELSE /\ Set(p, [call[p] EXCEPT !.pc = "done"])
            /\ UNCHANGED <<windows_data, previous_window>>
    /\ UNCHANGED lwvars
    /\ UNCHANGED <<callers, portal_initialized, files, now, requests>>

\* a second of wall-clock time passes; the clock is read only where a
\* destination path is made
Tick ==
    /\ now < MaxTime
    /\ \E p \in callers : call[p].pc \in {"idle", "done", "window_begin", "full_begin"}
    /\ now' = now + 1
    /\ UNCHANGED lwvars
    /\ UNCHANGED <<callers, call, previous_window, portal_initialized, windows_data,
                   files, requests>>

(***************************************************************************)
(* Specifications.                                                         *)
(***************************************************************************)
NoFiles == [q \in {} |-> 0]

\* no _get_window_geometry_gnome call was made on its own
NoResolve == [pc |-> "none", kind |-> "-", wid |-> None, out |-> None]

InitCapture ==
    /\ callers = {1}
    /\ call = [p \in callers |-> IdleCall]
    /\ previous_window = None
    /\ portal_initialized = FALSE
    /\ files = NoFiles
    /\ now = 0
    /\ requests = 0

InitLW ==
    /\ ext_result \in ExtResults
    /\ ps_result = NotCalled
    /\ lw_pc = "idle"
    /\ lw_out = NoOutput
    /\ geo = NoResolve
    /\ InitCapture
    /\ windows_data = <<>>

\* the Host calls list_windows; "ps aux" runs only when the extension raised
ListWindows ==
    /\ lw_pc = "idle"
    /\ \E ps \in (IF list_windows_via_extension(ext_result).raised
                    THEN PsResults ELSE {NotCalled}) :
        /\ ps_result' = ps
        /\ lw_out' = list_windows(ext_result, ps)
    /\ lw_pc' = "done"
    /\ UNCHANGED <<ext_result, geo, capvars>>

NextLW == ListWindows

\* the entries Windows.List may report to the geometry lookup
GeoEntries ==
    {BusWindow(id, 0, FALSE, rect) :
        id \in {Missing, 7, 12}, rect \in {EmptyRect, Rect1, Rect2, PartialRect, ZeroRect}}

\* the window ids the geometry lookup is asked for
GeoIds == {"7", "12", "104"}

InitGeo ==
    /\ ext_result = [kind |-> "ok", data |-> <<>>]
    /\ ps_result = NotCalled
    /\ lw_pc = "idle"
    /\ lw_out = NoOutput
    /\ InitCapture
    /\ windows_data \in SeqUpTo(GeoEntries, MaxWins)
    /\ geo \in {[pc |-> "idle", kind |-> k, wid |-> w, out |-> None] :
                    k \in BusOutcomes, w \in GeoIds}

\* _get_window_geometry_gnome(window_id) against what the session bus reports
ResolveGeometry ==
    /\ geo.pc = "idle"
    /\ geo' = [geo EXCEPT !.pc = "done",
                          !.out = get_window_geometry_gnome(geo.kind, windows_data, geo.wid)]
    /\ UNCHANGED <<ext_result, ps_result, lw_pc, lw_out, capvars>>

NextGeo == ResolveGeometry

SpecGeo == InitGeo /\ [][NextGeo]_vars

SpecLW == InitLW /\ [][NextLW]_vars

Init ==
    /\ ext_result = [kind |-> "ok", data |-> <<>>]
    /\ ps_result = NotCalled
    /\ lw_pc = "idle"
    /\ lw_out = NoOutput
    /\ geo = NoResolve
    /\ InitCapture
    /\ windows_data \in BusStates

HostCalls == \E p \in callers : \E wid \in HostIds : CaptureScreenshot(p, wid)
Remembers == \E p \in callers : Remember(p)
BeginsWindow == \E p \in callers : BeginWindow(p)
BeginsFull == \E p \in callers : BeginFull(p)
Probes == \E p \in callers : Probe(p)
PortalCaptures == \E p \in callers : PortalCapture(p)
NativeScreenMethods == \E p \in callers : NativeScreenMethod(p)
NativeGeometries == \E p \in callers : NativeGeometry(p)
NativeGrimGeometries == \E p \in callers : NativeGrimGeometry(p)
NativeFocuses == \E p \in callers : NativeFocus(p)
NativeWindowMethods == \E p \in callers : NativeWindowMethod(p)
NativeSlurpGrims == \E p \in callers : NativeSlurpGrim(p)
ReadsArtifact == \E p \in callers : ReadArtifact(p)
FallsBack == \E p \in callers : FallBackToFullScreen(p)
RaisesAllFailed == \E p \in callers : RaiseAllFailed(p)
Finallies == \E p \in callers : Finally(p)

Next ==
    \/ HostCalls
    \/ Remembers
    \/ BeginsWindow
    \/ BeginsFull
    \/ Probes
    \/ PortalCaptures
    \/ NativeScreenMethods
    \/ NativeGeometries
    \/ NativeGrimGeometries
    \/ NativeFocuses
    \/ NativeWindowMethods
    \/ NativeSlurpGrims
    \/ ReadsArtifact
    \/ FallsBack
    \/ RaisesAllFailed
    \/ Finallies
    \/ Tick

Spec == Init /\ [][Next]_vars

(***************************************************************************)
(* Two capture_screenshot calls in flight at once: the Host asks caller 1   *)
(* for a window and caller 2 for the full screen, each once; the steps of   *)
(* the two calls interleave.  The window asked for is one the session bus   *)
(* does not list (an id list_windows took from the process scan), so the    *)
(* native backend's window capture cannot succeed: the window is captured   *)
(* by the portal or the call degrades to the full screen.                   *)
(***************************************************************************)
\* the window lists the session bus starts with when two calls run at once
ConcBusStates == { <<>> }

\* the id caller 1 asks for: a process id of the process scan
ConcWindowId == "104"

InitConc ==
    /\ ext_result = [kind |-> "ok", data |-> <<>>]
    /\ ps_result = NotCalled
    /\ lw_pc = "idle"
    /\ lw_out = NoOutput
    /\ geo = NoResolve
    /\ callers = {1, 2}
    /\ call = [p \in callers |-> IdleCall]
    /\ previous_window = None
    /\ portal_initialized = FALSE
    /\ files = NoFiles
    /\ now = 0
    /\ requests = 0
    /\ windows_data \in ConcBusStates

\* caller 1 is asked for the window, caller 2 for the full screen
ConcHostCalls ==
    \/ call[1].pc = "idle" /\ CaptureScreenshot(1, ConcWindowId)
    \/ call[2].pc = "idle" /\ CaptureScreenshot(2, None)

\* the steps of Next that can be taken when the session bus lists no window
\* (no geometry is resolved and no activation succeeds, so the exact-geometry
\* grim and the focus-based methods are never reached)
NextConc ==
    \/ ConcHostCalls
    \/ Remembers
    \/ BeginsWindow
    \/ BeginsFull
    \/ Probes
    \/ PortalCaptures
    \/ NativeScreenMethods
    \/ NativeGeometries
    \/ NativeFocuses
    \/ ReadsArtifact
    \/ FallsBack
    \/ RaisesAllFailed
    \/ Finallies
    \/ Tick

SpecConc == InitConc /\ [][NextConc]_vars

(***************************************************************************)
(* Two capture_screenshot calls with a window id in flight at once: the     *)
(* Host asks each caller once, and the steps of the two calls interleave.   *)
(***************************************************************************)
\* the window lists the session bus starts with when two window captures
\* run at once: window 12 has the focus
RaceBusStates == { <<BusWindow(12, 0, TRUE, EmptyRect)>> }

\* the ids the two callers ask for: process ids of the process scan
RaceWindowIds == <<"104", "104">>

InitRace ==
    /\ ext_result = [kind |-> "ok", data |-> <<>>]
    /\ ps_result = NotCalled
    /\ lw_pc = "idle"
    /\ lw_out = NoOutput
    /\ geo = NoResolve
    /\ callers = {1, 2}
    /\ call = [p \in callers |-> IdleCall]
    /\ previous_window = None
    /\ portal_initialized = FALSE
    /\ files = NoFiles
    /\ now = 0
    /\ requests = 0
    /\ windows_data \in RaceBusStates

\* each caller is asked for its window once
RaceHostCalls ==
    \E p \in callers : call[p].pc = "idle" /\ CaptureScreenshot(p, RaceWindowIds[p])

\* the steps of Next that can be taken when the windows asked for are not on
\* the session bus (no geometry is resolved, no activation of a target
\* succeeds); the two calls run within one second of the clock
NextRace ==
    \/ RaceHostCalls
    \/ Remembers
    \/ BeginsWindow
    \/ BeginsFull
    \/ Probes
    \/ PortalCaptures
    \/ NativeScreenMethods
    \/ NativeGeometries
    \/ NativeFocuses
    \/ ReadsArtifact
    \/ FallsBack
    \/ RaisesAllFailed
    \/ Finallies

SpecRace == InitRace /\ [][NextRace]_vars

(***************************************************************************)
(* Two capture_screenshot calls with a window id that the Host serializes:  *)
(* caller 2 is asked only when the call of caller 1 has completed.  The     *)
(* frame of caller 1 stays as its call left it.                             *)
(***************************************************************************)
\* the window list the session bus starts with: window 12 has the focus
SerialBusStates ==
    { <<BusWindow(12, 0, TRUE, EmptyRect), BusWindow(7, 0, FALSE, EmptyRect)>> }

\* the ids the Host asks for: a window of the session bus, or a process id
\* of the process scan
SerialWindowIds == {"7", "104"}

InitSerial ==
    /\ ext_result = [kind |-> "ok", data |-> <<>>]
    /\ ps_result = NotCalled
    /\ lw_pc = "idle"
    /\ lw_out = NoOutput
    /\ geo = NoResolve
    /\ callers = {1, 2}
    /\ call = [p \in callers |-> IdleCall]
    /\ previous_window = None
    /\ portal_initialized = FALSE
    /\ files = NoFiles
    /\ now = 0
    /\ requests = 0
    /\ windows_data \in SerialBusStates

\* caller 1 is asked first, caller 2 when that call is complete
SerialHostCalls ==
    \E wid \in SerialWindowIds :
        \/ call[1].pc = "idle" /\ call[2].pc = "idle" /\ CaptureScreenshot(1, wid)
        \/ call[1].pc = "done" /\ call[2].pc = "idle" /\ CaptureScreenshot(2, wid)

\* the steps of Next that can be taken (the session bus reports no rect, so
\* no exact-geometry capture is made); the two calls run within one second
\* of the clock
NextSerial ==
    \/ SerialHostCalls
    \/ Remembers
    \/ BeginsWindow
    \/ BeginsFull
    \/ Probes
    \/ PortalCaptures
    \/ NativeScreenMethods
    \/ NativeGeometries
    \/ NativeFocuses
    \/ NativeWindowMethods
    \/ NativeSlurpGrims
    \/ ReadsArtifact
    \/ FallsBack
    \/ RaisesAllFailed
    \/ Finallies

SpecSerial == InitSerial /\ [][NextSerial]_vars

(***************************************************************************)
(* Window captures only: the Host passes a window id with every            *)
(* capture_screenshot call (an id the session bus lists or one it does     *)
(* not); the session bus starts in any of BusStates and the clock runs.    *)
(* Full-screen captures happen as the degradation of a window capture.     *)
(***************************************************************************)
WindowHostCalls ==
    \E p \in callers : \E wid \in HostIds \ {None} : CaptureScreenshot(p, wid)

NextWindow ==
    \/ WindowHostCalls
    \/ Remembers
    \/ BeginsWindow
    \/ BeginsFull
    \/ Probes
    \/ PortalCaptures
    \/ NativeScreenMethods
    \/ NativeGeometries
    \/ NativeGrimGeometries
    \/ NativeFocuses
    \/ NativeWindowMethods
    \/ NativeSlurpGrims
    \/ ReadsArtifact
    \/ FallsBack
    \/ RaisesAllFailed
    \/ Finallies
    \/ Tick

SpecWindow == Init /\ [][NextWindow]_vars

(***************************************************************************)
(* Vocabulary of the properties.                                           *)
(***************************************************************************)
Done(p) == call[p].pc = "done"

\* capture_screenshot was called with a window id
WindowCall(p) == Truthy(call[p].window_id)

\* the backend an external call belongs to: its probe, or a call its capture made
EventBackend(e) ==
    IF e.op = "is_available" THEN e.arg
    ELSE IF e.by = "XDGPortalBackend" THEN "portal"
    ELSE IF e.by \in {"GNOMEShellBackend.capture_screen",
                      "GNOMEShellBackend.capture_window",
                      "_get_window_geometry_gnome"} THEN "native"
    ELSE "-"

\* an external call made by a backend's capture_screen or capture_window
IsCaptureEvent(e) == e.op # "is_available" /\ EventBackend(e) # "-"

\* the activations restore_previous_window issued
RestoreEvents(c) ==
    {i \in 1..Len(c.trace) : c.trace[i].by = "restore_previous_window"}

\* the backend was probed unavailable, or its capture returned False
UnavailableOrFailed(c, b) == c.avail[b] = "no" \/ c.captured[b] = "false"

BackendNames == {Backends[k] : k \in 1..Len(Backends)}

(***************************************************************************)
(* C1                                                                      *)
(***************************************************************************)
\* C1: a capture_screenshot call with a window id raises to the Host only
\* when the full-screen fallback ran and no backend's capture_screen returned
\* True; whenever some backend's capture_screen returned True in the call,
\* the call returns an image (read from the full-screen destination).
C1_WindowCaptureRaisesOnlyIfFullScreenFails ==
    \A p \in callers :
        (WindowCall(p) /\ call[p].pc \in {"finally", "done"}) =>
            /\ call[p].outcome.kind \in {"image", "error"}
            /\ call[p].outcome.kind = "error" =>
                    /\ call[p].fellback
                    /\ call[p].mode = "screen"
                    /\ \A b \in BackendNames : UnavailableOrFailed(call[p], b)
            /\ (call[p].mode = "screen" /\ \E b \in BackendNames :
                                                call[p].captured[b] = "true") =>
                    /\ call[p].outcome.kind = "image"
                    /\ call[p].outcome.path = call[p].filepath

\* the window capture failed on every backend, the full-screen capture
\* succeeded, and the Host got an image
C1_Witness ==
    \E p \in callers :
        /\ Done(p) /\ WindowCall(p) /\ call[p].fellback
        /\ call[p].captured["native"] = "true"
        /\ call[p].outcome.kind = "image"

(***************************************************************************)
(* C2                                                                      *)
(***************************************************************************)
\* C2: every capture_screenshot call with a window id has executed
\* restore_previous_window when it completes, whether it returned an image or
\* raised, and the restore runs only after the capture attempts ended (no
\* external call of a backend follows it).
C2_RestoreRunsOnEveryPath ==
    \A p \in callers :
        /\ (WindowCall(p) /\ Done(p)) => call[p].restored
        /\ call[p].restored =>
                /\ Done(p)
                /\ call[p].outcome.kind \in {"image", "error"}
                /\ \A i \in RestoreEvents(call[p]) :
                        \A j \in 1..Len(call[p].trace) :
                            IsCaptureEvent(call[p].trace[j]) => j < i

\* a window capture that raised to the Host, with the restore executed and
\* its activation issued
C2_Witness ==
    \E p \in callers :
        /\ Done(p) /\ WindowCall(p) /\ call[p].restored
        /\ call[p].outcome.kind = "error"
        /\ RestoreEvents(call[p]) # {}

(***************************************************************************)
(* C3                                                                      *)
(***************************************************************************)
\* the activation restore issued exited zero
RestoreSucceeded(c) == \E i \in RestoreEvents(c) : c.trace[i].res = "ok"

\* exactly the windows of id wid have the focus, and there is one
OnlyFocused(data, wid) ==
    /\ \E i \in 1..Len(data) : data[i].focus
    /\ \A i \in 1..Len(data) :
            data[i].focus <=> (data[i].id # Missing /\ Str(data[i].id) = wid)

\* C3: when remember stored window W and the activation issued by restore
\* succeeded, W is the focused window when the window-targeted call
\* completes, whichever window the capture focused in between.
C3_FocusIsBackOnRememberedWindow ==
    \A p \in callers :
        (Done(p) /\ WindowCall(p) /\ call[p].remembered # None
                 /\ RestoreSucceeded(call[p])) =>
            OnlyFocused(windows_data, call[p].remembered)

\* the capture activated its target, another window than the remembered one,
\* and after the restore the remembered window has the focus again
C3_Witness ==
    \E p \in callers :
        /\ Done(p) /\ WindowCall(p) /\ RestoreSucceeded(call[p])
        /\ call[p].remembered # None
        /\ call[p].remembered # call[p].window_id
        /\ \E i \in 1..Len(call[p].trace) :
                /\ call[p].trace[i].by = "GNOMEShellBackend.capture_window"
                /\ call[p].trace[i].op = "activate"
                /\ call[p].trace[i].res = "ok"
        /\ OnlyFocused(windows_data, call[p].remembered)

(***************************************************************************)
(* C4                                                                      *)
(***************************************************************************)
\* C4: the restore of a window-targeted call issues exactly one activation,
\* of the remembered id, when remember stored an id, and none when remember
\* stored None; before the restore ran no such call was issued.
C4_RestoreIssuesOneActivationOrNone ==
    \A p \in callers :
        /\ (Done(p) /\ WindowCall(p)) =>
                /\ Cardinality(RestoreEvents(call[p])) =
                        (IF call[p].remembered # None THEN 1 ELSE 0)
                /\ \A i \in RestoreEvents(call[p]) :
                        /\ call[p].trace[i].op = "activate"
                        /\ call[p].trace[i].arg = call[p].remembered
        /\ ~call[p].restored => RestoreEvents(call[p]) = {}

\* remember stored an id, the one activation restore issued failed, and no
\* second one was issued
C4_Witness ==
    \E p \in callers :
        /\ Done(p) /\ WindowCall(p) /\ call[p].remembered # None
        /\ Cardinality(RestoreEvents(call[p])) = 1
        /\ ~RestoreSucceeded(call[p])

(***************************************************************************)
(* C5                                                                      *)
(***************************************************************************)
\* C5: the remembered-window slot is empty after every restore, also when the
\* activation failed or timed out.  (The code keeps the id in the slot when
\* the activation raised.)
C5_SlotEmptyAfterEveryRestore ==
    \A p \in callers : call[p].restored => previous_window = None

(***************************************************************************)
(* C6                                                                      *)
(***************************************************************************)
\* C6: within a BackendManager call, every external call made by a backend's
\* capture comes after an is_available probe of that backend that answered
\* yes in the same call; a backend probed unavailable has no capture invoked.
C6_NoCaptureOnUnavailableBackend ==
    \A p \in callers :
        /\ \A i \in 1..Len(call[p].trace) :
                IsCaptureEvent(call[p].trace[i]) =>
                    /\ call[p].avail[EventBackend(call[p].trace[i])] = "yes"
                    /\ \E j \in 1..(i - 1) :
                            /\ call[p].trace[j].op = "is_available"
                            /\ call[p].trace[j].arg = EventBackend(call[p].trace[i])
                            /\ call[p].trace[j].res = "yes"
        /\ \A b \in BackendNames :
                call[p].avail[b] # "yes" => call[p].captured[b] = "none"

\* the portal backend was probed unavailable and skipped, the native backend
\* was probed available and its capture ran
C6_Witness ==
    \E p \in callers :
        /\ call[p].avail["portal"] = "no"
        /\ call[p].captured["portal"] = "none"
        /\ call[p].avail["native"] = "yes"
        /\ call[p].captured["native"] # "none"

(***************************************************************************)
(* C7                                                                      *)
(***************************************************************************)
\* position of a backend in BackendManager.backends
BackendIndex(b) == CHOOSE k \in 1..Len(Backends) : Backends[k] = b

\* C7: the manager probes and invokes the portal backend before the native
\* one; a backend whose capture returned False is followed by the next
\* backend; the manager returns True at the first backend whose capture
\* returned True, with every earlier backend unavailable or failed and no
\* later backend probed or invoked; it returns False exactly when every
\* backend was unavailable or failed.
C7_BackendsInOrderFirstSuccessWins ==
    \A p \in callers :
        LET c == call[p]
        IN  /\ \A i, j \in 1..Len(c.trace) :
                    (i < j /\ EventBackend(c.trace[i]) = "native")
                        => EventBackend(c.trace[j]) # "portal"
            /\ \A b \in BackendNames :
                    (c.captured[b] = "false" /\ BackendIndex(b) < Len(Backends)) =>
                        /\ c.backend > BackendIndex(b)
                        /\ c.pc # "exhausted" => c.backend = BackendIndex(b) + 1
                        /\ c.pc \in {"captured", "exhausted"} =>
                                c.avail[Backends[BackendIndex(b) + 1]] # "unprobed"
            /\ c.pc = "captured" =>
                    \E b \in BackendNames :
                        /\ c.captured[b] = "true"
                        /\ c.backend = BackendIndex(b)
                        /\ \A o \in BackendNames :
                            /\ BackendIndex(o) < BackendIndex(b) => UnavailableOrFailed(c, o)
                            /\ BackendIndex(o) > BackendIndex(b) =>
                                    c.avail[o] = "unprobed" /\ c.captured[o] = "none"
            /\ c.pc = "exhausted" => \A b \in BackendNames : UnavailableOrFailed(c, b)
            /\ (\A b \in BackendNames : UnavailableOrFailed(c, b)) =>
                    /\ c.pc \in {"exhausted", "full_begin", "finally", "done"}
                    /\ c.pc \in {"finally", "done"} => c.outcome.kind = "error"

\* the portal backend's capture failed, the native backend's capture then
\* succeeded and the manager returned True
C7_Witness ==
    \E p \in callers :
        /\ call[p].pc = "captured"
        /\ call[p].captured["portal"] = "false"
        /\ call[p].captured["native"] = "true"

(***************************************************************************)
(* C8                                                                      *)
(***************************************************************************)
\* C8: when every backend's is_available answered no in a full-screen
\* capture, the capture ends with the error raised to the Host: no external
\* call of a backend's capture was made, no file was read and no image is
\* returned.
C8_AllUnavailableRaises ==
    \A p \in callers :
        (call[p].mode = "screen" /\ \A b \in BackendNames : call[p].avail[b] = "no") =>
            /\ call[p].pc \in {"exhausted", "finally", "done"}
            /\ \A i \in 1..Len(call[p].trace) : ~IsCaptureEvent(call[p].trace[i])
            /\ \A b \in BackendNames : call[p].captured[b] = "none"
            /\ call[p].pc \in {"finally", "done"} =>
                    /\ call[p].outcome.kind = "error"
                    /\ call[p].outcome.path = None

\* a full-screen call (no window id) with both backends unavailable has
\* completed with the error
C8_Witness ==
    \E p \in callers :
        /\ Done(p) /\ ~WindowCall(p)
        /\ \A b \in BackendNames : call[p].avail[b] = "no"
        /\ call[p].outcome.kind = "error"

(***************************************************************************)
(* C9                                                                      *)
(***************************************************************************)
\* the decimal text of the ids the window lists use
IdText(n) == CASE n = 7 -> "7" [] n = 12 -> "12" [] OTHER -> "?"

\* the entries with frame_type 0 and window_type 0
Conforming(data) ==
    {i \in 1..Len(data) : data[i].frame_type = 0 /\ data[i].window_type = 0}

\* the k-th conforming entry, in the order reported
KthConforming(data, k) ==
    CHOOSE i \in Conforming(data) :
        Cardinality({j \in Conforming(data) : j <= i}) = k

\* the extension query succeeded: exit 0, a parseable list, and every
\* conforming entry has an id
PrimarySucceeded ==
    /\ ext_result.kind = "ok"
    /\ \A i \in Conforming(ext_result.data) : ext_result.data[i].id # Missing

\* C9: when the extension enumeration succeeds, list_windows returns exactly
\* the entries with frame_type 0 and window_type 0, in the order reported,
\* each as {id: decimal text of the native id, title: wm_class} ('Unknown'
\* when the entry has no wm_class).
C9_ExtensionListIsFiltered ==
    (lw_pc = "done" /\ PrimarySucceeded) =>
        /\ lw_out.kind = "list"
        /\ Len(lw_out.list) = Cardinality(Conforming(ext_result.data))
        /\ \A k \in 1..Len(lw_out.list) :
                LET w == ext_result.data[KthConforming(ext_result.data, k)]
                IN  /\ lw_out.list[k].id = IdText(w.id)
                    /\ lw_out.list[k].title =
                            (IF w.wm_class = NoClass THEN "Unknown" ELSE w.wm_class)

\* two entries were reported, the first with window_type 1, and only the
\* second is returned
C9_Witness ==
    /\ lw_pc = "done" /\ PrimarySucceeded
    /\ Len(ext_result.data) = 2
    /\ ext_result.data[1].frame_type = 0 /\ ext_result.data[1].window_type = 1
    /\ ext_result.data[2].id = 12
    /\ lw_out.list = <<[id |-> "12", title |-> "Firefox"]>>

(***************************************************************************)
(* C10                                                                     *)
(***************************************************************************)
\* C10 as stated: whenever the extension enumeration failed, list_windows
\* returns the process scan's list without raising.
C10_FallbackNeverRaises ==
    (lw_pc = "done" /\ ~PrimarySucceeded) =>
        /\ lw_out.kind = "list"
        /\ lw_out.list = ProcessScanOf[ps_result].value

\* C10 amended: when the extension enumeration failed, the process scan is
\* run; if "ps" exited zero in time list_windows returns exactly the scan's
\* list (nothing of the extension's entries), and if the scan failed too
\* list_windows raises; when the extension enumeration succeeded the process
\* scan is not run.
C10_FallbackReturnsScanOrRaises ==
    lw_pc = "done" =>
        /\ ~PrimarySucceeded =>
                /\ ps_result # NotCalled
                /\ ps_result.kind = "ok" =>
                        /\ lw_out.kind = "list"
                        /\ lw_out.list = ProcessScanOf[ps_result].value
                /\ ps_result.kind # "ok" => lw_out.kind = "error"
        /\ PrimarySucceeded => ps_result = NotCalled

\* the extension listed one window and then raised on an entry without id;
\* the result is the process scan's one window alone
C10_Witness ==
    /\ lw_pc = "done"
    /\ ext_result.kind = "ok" /\ Len(ext_result.data) = 2
    /\ IsNormalWindow(ext_result.data[1]) /\ ext_result.data[1].id = 7
    /\ IsNormalWindow(ext_result.data[2]) /\ ext_result.data[2].id = Missing
    /\ ps_result.kind = "ok"
    /\ lw_out.list = <<[id |-> "104", title |-> "Vim"]>>

(***************************************************************************)
(* C11                                                                     *)
(***************************************************************************)
\* C11: when the gdbus call of the extension strategy exited non-zero or
\* timed out, and the "ps aux" call of the process scan exited non-zero or
\* timed out too, list_windows raises to the Host and hands back no list.
C11_BothSubprocessesFailedRaises ==
    (/\ lw_pc = "done"
     /\ ext_result.kind \in {"nonzero", "timeout"}
     /\ ps_result.kind \in {"nonzero", "timeout"}) =>
        /\ lw_out.kind = "error"
        /\ lw_out.list = <<>>

\* the extension query timed out, "ps aux" exited non-zero, and the call
\* ended with the error
C11_Witness ==
    /\ lw_pc = "done"
    /\ ext_result.kind = "timeout"
    /\ ps_result.kind = "nonzero"
    /\ lw_out.kind = "error"

(***************************************************************************)
(* C12                                                                     *)
(***************************************************************************)
\* the extension query exited zero and its output is no window list, or a
\* conforming entry of it has no id
UnparseableOrIdless ==
    \/ ext_result.kind = "malformed"
    \/ /\ ext_result.kind = "ok"
       /\ \E i \in Conforming(ext_result.data) : ext_result.data[i].id = Missing

\* C12: when the extension query exited zero but its output cannot be parsed
\* as a window list, or a conforming entry lacks an id, list_windows raises to
\* the caller instead of returning a list.  (The code falls back to the
\* process scan and returns its list.)
C12_UnparseableOrIdlessRaises ==
    (lw_pc = "done" /\ UnparseableOrIdless) => lw_out.kind = "error"

(***************************************************************************)
(* C13                                                                     *)
(***************************************************************************)
\* the geometry text of the rects the session bus reports
RectText(rect) ==
    CASE rect = Rect1 -> "10,20 300x200"
      [] rect = Rect2 -> "0,5 64x48"
      [] rect = ZeroRect -> "10,20 0x200"
      [] OTHER -> "?"

\* the entries of the enumeration whose id, as text, is wid and whose rect is
\* not empty
RectEntries(data, wid) ==
    {i \in 1..Len(data) :
        /\ data[i].id # Missing
        /\ IdText(data[i].id) = wid
        /\ data[i].rect # EmptyRect}

\* C13: the geometry lookup returns a rectangle only when the enumeration
\* succeeded and holds an entry whose id as text equals the given id and whose
\* rect is not empty, and what it returns is the (x, y, width, height) of the
\* first such entry; when there is no such entry it returns not-found.
C13_GeometryOnlyFromMatchingEntry ==
    geo.pc = "done" =>
        LET hits == RectEntries(windows_data, geo.wid)
        IN  /\ geo.out # None =>
                    /\ geo.kind = "ok"
                    /\ hits # {}
                    /\ \E i \in hits :
                            /\ \A j \in hits : i <= j
                            /\ geo.out = RectText(windows_data[i].rect)
            /\ hits = {} => geo.out = None

\* the second entry reported is window 7 with a rect, the first is another
\* window, and the lookup of "7" gave the second entry's rectangle
C13_Witness ==
    /\ geo.pc = "done" /\ geo.kind = "ok" /\ geo.wid = "7"
    /\ Len(windows_data) = 2
    /\ windows_data[1].id = 12 /\ windows_data[1].rect = Rect1
    /\ windows_data[2].id = 7 /\ windows_data[2].rect = Rect2
    /\ geo.out = "0,5 64x48"

(***************************************************************************)
(* C14                                                                     *)
(***************************************************************************)
\* the exact-geometry captures a call made: grim on the geometry the lookup
\* returned
GeometryCaptures(c) ==
    {i \in 1..Len(c.trace) :
        /\ c.trace[i].by = "GNOMEShellBackend.capture_window"
        /\ c.trace[i].op = "grim_with_geometry"
        /\ c.trace[i].arg # "slurp"}

\* C14: every rectangle the geometry lookup hands to a capture backend has
\* width > 0 and height > 0: each exact-geometry capture is given the rect of
\* an entry of the target window whose width and height are positive.  (The
\* code tests only that the rect is not empty.)
C14_HandedRectanglesHaveArea ==
    \A p \in callers :
        \A i \in GeometryCaptures(call[p]) :
            \E k \in RectEntries(windows_data, call[p].window_id) :
                /\ RectText(windows_data[k].rect) = call[p].trace[i].arg
                /\ windows_data[k].rect.width > 0
                /\ windows_data[k].rect.height > 0

(***************************************************************************)
(* C15                                                                     *)
(***************************************************************************)
\* the geometry lookups a call made
GeometryLookups(c) ==
    {i \in 1..Len(c.trace) : c.trace[i].by = "_get_window_geometry_gnome"}

\* the rect of the first entry of window wid that has one lacks a coordinate
FirstRectIsPartial(data, wid) ==
    \E k \in RectEntries(data, wid) :
        /\ \A j \in RectEntries(data, wid) : k <= j
        /\ \E f \in {"x", "y", "width", "height"} : data[k].rect[f] = Missing

\* C15: a geometry lookup whose session-bus call failed, timed out or gave a
\* malformed response (unparseable output, a rect missing a coordinate)
\* raises nothing: it gives not-found, no exact-geometry capture is made, and
\* capture_window goes on with its focus-based path (the activation of the
\* target is the next external call).
C15_GeometryFailsSoft ==
    \A p \in callers :
        \A i \in GeometryLookups(call[p]) :
            (\/ call[p].trace[i].res = "fail"
             \/ FirstRectIsPartial(windows_data, call[p].window_id)) =>
                /\ call[p].geometry = None
                /\ GeometryCaptures(call[p]) = {}
                /\ i = Len(call[p].trace) => call[p].pc = "native_focus"
                /\ i < Len(call[p].trace) =>
                        /\ call[p].trace[i + 1].by = "GNOMEShellBackend.capture_window"
                        /\ call[p].trace[i + 1].op = "activate"
                        /\ call[p].trace[i + 1].arg = call[p].window_id

\* the session bus answered with a rect that has no width; the lookup gave
\* not-found and the focus-based path activated the target
C15_Witness ==
    \E p \in callers :
        /\ FirstRectIsPartial(windows_data, call[p].window_id)
        /\ \E i \in GeometryLookups(call[p]) :
                /\ call[p].trace[i].res = "ok"
                /\ i < Len(call[p].trace)
                /\ call[p].trace[i + 1].op = "activate"
                /\ call[p].trace[i + 1].res = "ok"
        /\ call[p].geometry = None

(***************************************************************************)
(* C16                                                                     *)
(***************************************************************************)
\* C16: in a window capture whose geometry lookup succeeded, the
\* exact-geometry capture is the first capture attempted: no portal request
\* and no step of the backend iteration (an is_available probe) comes before
\* it.  (The code reaches the lookup only inside the native backend's
\* capture_window, after the manager probed, and when it was available asked,
\* the portal backend.)
C16_ExactGeometryIsFirstCapture ==
    \A p \in callers :
        \A i \in GeometryCaptures(call[p]) :
            \A j \in 1..(i - 1) :
                /\ call[p].trace[j].op # "portal_window"
                /\ call[p].trace[j].op # "is_available"

(***************************************************************************)
(* C17                                                                     *)
(***************************************************************************)
\* C17: every is_available answer reflects the environment at the time of
\* the call: the backend is reported available exactly when it is usable now,
\* so a backend that has become unavailable since an earlier call is reported
\* unavailable.  (The portal backend answers True from its _initialized flag
\* once one initialization succeeded.)
C17_ProbeReflectsEnvironment ==
    \A p \in callers :
        LET n == Len(call[p].trace)
        IN  (n > 0 /\ call[p].trace[n].op = "is_available") =>
                (call[p].trace[n].res = "yes" <=> call[p].last = "up")

(***************************************************************************)
(* C18                                                                     *)
(***************************************************************************)
\* the entry remember is to store: the first one flagged focus, else the
\* first one of frame_type 0 and window_type 0; 0 when there is none
ActiveEntry(data) ==
    LET focused == {i \in 1..Len(data) : data[i].focus}
    IN  IF focused # {} THEN CHOOSE i \in focused : \A j \in focused : i <= j
        ELSE IF Conforming(data) # {}
             THEN CHOOSE i \in Conforming(data) : \A j \in Conforming(data) : i <= j
        ELSE 0

\* C18: right after remember ran (nothing else has touched the session bus),
\* the slot holds the id of the window flagged focused, or else of the first
\* window with frame_type 0 and window_type 0; it holds None when the lookup
\* failed (non-zero exit, timeout, malformed response, an entry without id)
\* or there is no such window; the call goes on without raising.
C18_RememberStoresActiveWindow ==
    \A p \in callers :
        call[p].pc = "window_begin" =>
            LET e == call[p].trace[Len(call[p].trace)]
                k == ActiveEntry(windows_data)
            IN  /\ e.by = "remember_active_window"
                /\ call[p].outcome.kind = "none"
                /\ previous_window = call[p].remembered
                /\ call[p].remembered =
                        (IF e.res # "ok" \/ k = 0 THEN None
                         ELSE IF windows_data[k].id = Missing THEN None
                         ELSE IdText(windows_data[k].id))

\* no window is flagged focused, the first entry is no normal window, and
\* remember stored the id of the second
C18_Witness ==
    \E p \in callers :
        /\ call[p].pc = "window_begin"
        /\ Len(windows_data) = 2
        /\ \A i \in 1..Len(windows_data) : ~windows_data[i].focus
        /\ windows_data[1].frame_type = 1
        /\ previous_window = "12"

(***************************************************************************)
(* C19                                                                     *)
(***************************************************************************)
\* the call has made its destination path and has not completed
InFlight(p) == call[p].pc \notin {"idle", "done"} /\ call[p].filepath # None

\* C19: a window capture call and a full-screen capture call that are in
\* flight together never have the same destination path, also when the
\* window capture has degraded to the full screen.  (The degraded call makes
\* its path as screenshot_full_<timestamp>.png, the path of a full-screen
\* call of the same second.)
C19_ConcurrentCapturesNeverShareAPath ==
    \A p, q \in callers :
        (/\ WindowCall(p) /\ ~WindowCall(q)
         /\ InFlight(p) /\ InFlight(q)) =>
            call[p].filepath # call[q].filepath

(***************************************************************************)
(* C20                                                                     *)
(***************************************************************************)
\* C20: no step of a capture_screenshot call removes a file from the capture
\* storage directory: a file that is there stays there, and when the backend
\* manager has returned True the artifact of the call is there; the one file
\* deleted is the portal's temporary copy, which is not in the directory.
C20_ArtifactsAreNeverDeleted ==
    /\ [](\A p \in callers :
            call[p].pc = "captured" => Exists(files, call[p].filepath))
    /\ [][\A path \in DOMAIN files : path \in DOMAIN files']_vars

\* a second call has returned an image the portal delivered (its temporary
\* copy deleted) and an artifact written by the first call is still there
C20_Witness ==
    \E p \in callers :
        /\ Done(p) /\ call[p].req = 2
        /\ call[p].outcome.kind = "image"
        /\ call[p].tmp_deleted
        /\ \E path \in DOMAIN files : path # call[p].filepath /\ files[path] = 1

(***************************************************************************)
(* C21                                                                     *)
(***************************************************************************)
\* C21: in the native backend's window capture a failed strategy never ends
\* the chain: when the exact-geometry capture exited non-zero or timed out
\* (it raised), capture_window goes on with the next strategy (the target
\* is activated for the legacy window screenshot, the next external call),
\* and the backend has not returned False at that point.  (The code calls
\* _try_grim_with_geometry outside the try of its methods loop, so its
\* exception ends capture_window with False.)
C21_FailedStrategyNeverEndsChain ==
    \A p \in callers :
        \A i \in GeometryCaptures(call[p]) :
            call[p].trace[i].res = "fail" =>
                /\ i = Len(call[p].trace) =>
                        /\ call[p].pc = "native_focus"
                        /\ call[p].captured["native"] = "none"
                /\ i < Len(call[p].trace) =>
                        /\ call[p].trace[i + 1].by = "GNOMEShellBackend.capture_window"
                        /\ call[p].trace[i + 1].op = "activate"

(***************************************************************************)
(* C22                                                                     *)
(***************************************************************************)
\* the tools of the native backend's full-screen capture, in the order the
\* capture is to invoke them: compositor-native grab, legacy screenshot
\* utility, framebuffer dump
ScreenToolOrder == <<"grim_full", "gnome_screenshot_full", "import_full">>

\* the tool invocations the native backend's capture_screen made
ScreenToolCalls(c) ==
    {i \in 1..Len(c.trace) : c.trace[i].by = "GNOMEShellBackend.capture_screen"}

\* C22: the native backend's full-screen capture invokes grim, then
\* gnome-screenshot, then import; a later tool is invoked only after the
\* earlier one failed or left no file; the capture returns True right after
\* the first tool that exited zero with the destination file present, and no
\* later tool is invoked; it returns False exactly when all three were
\* invoked and each exited non-zero, timed out or left no file.
C22_ScreenToolsInOrderFirstSuccessWins ==
    \A p \in callers :
        LET c == call[p]
            T == ScreenToolCalls(c)
            rank(i) == Cardinality({j \in T : j <= i})
            final(i) == \A j \in T : j <= i
        IN  /\ Cardinality(T) <= Len(ScreenToolOrder)
            /\ \A i \in T :
                    /\ c.trace[i].op = ScreenToolOrder[rank(i)]
                    /\ ~final(i) => c.trace[i].res \in {"fail", "nofile"}
                    /\ c.trace[i].res = "wrote" =>
                            final(i) /\ c.captured["native"] = "true"
            /\ (c.mode = "screen" /\ c.captured["native"] = "true") =>
                    /\ T # {}
                    /\ \A i \in T : final(i) => c.trace[i].res \in {"wrote", "nofile"}
                    /\ Exists(files, c.filepath)
            /\ (c.mode = "screen" /\ c.captured["native"] = "false") =>
                    /\ Cardinality(T) = Len(ScreenToolOrder)
                    /\ \A i \in T : c.trace[i].res \in {"fail", "nofile"}
                    /\ (c.pc = "exhausted" /\ \E i \in T : c.trace[i].res = "nofile")
                            => ~Exists(files, c.filepath)
            /\ (c.mode = "screen" /\ c.captured["native"] = "none") =>
                    /\ \A i \in T : c.trace[i].res \in {"fail", "nofile"}
                    /\ T # {} => c.pc = "native_screen_method"
                    /\ c.pc = "native_screen_method" => c.method = Cardinality(T) + 1

\* grim exited non-zero, gnome-screenshot wrote the file, import was not run
\* and the capture returned True
C22_Witness ==
    \E p \in callers :
        LET T == ScreenToolCalls(call[p])
        IN  /\ call[p].pc = "captured"
            /\ call[p].captured["native"] = "true"
            /\ Cardinality(T) = 2
            /\ \E i, j \in T :
                    /\ i < j
                    /\ call[p].trace[i].op = "grim_full"
                    /\ call[p].trace[i].res = "fail"
                    /\ call[p].trace[j].op = "gnome_screenshot_full"
                    /\ call[p].trace[j].res = "wrote"

(***************************************************************************)
(* C23                                                                     *)
(***************************************************************************)
\* one step of the call of caller p after the Host started it
StepOf(p) ==
    \/ Remember(p) \/ BeginWindow(p) \/ BeginFull(p) \/ Probe(p)
    \/ PortalCapture(p) \/ NativeScreenMethod(p) \/ NativeGeometry(p)
    \/ NativeGrimGeometry(p) \/ NativeFocus(p) \/ NativeWindowMethod(p)
    \/ NativeSlurpGrim(p) \/ ReadArtifact(p) \/ FallBackToFullScreen(p)
    \/ RaiseAllFailed(p) \/ Finally(p)

\* the step made an external call for caller p, and the call timed out
TimedOutCall(p) ==
    /\ Len(call'[p].trace) = Len(call[p].trace) + 1
    /\ call'[p].last = "timeout"

\* how an external call reports a failure of its own: a non-zero exit of a
\* tool or of gdbus, an exception of the portal request
ReportedFailures == {"nonzero", "exception"}

PortalRequests(c) ==
    {i \in 1..Len(c.trace) : c.trace[i].by = "XDGPortalBackend"}

\* the ways a portal capture fails: the request denied or cancelled (a
\* response without uri), an IPC exception, a uri that is no file uri, a
\* failed copy, a timeout
PortalFailures == {"denied", "exception", "nonfile", "copyfail", "timeout"}

\* C24: the portal backend's capture_screen and capture_window hand the
\* backend manager a boolean on every path and raise nothing: a request that
\* was denied, raised, named no file, could not be copied or timed out makes
\* the capture return False (the manager goes on to the next backend, no
\* error is raised to the Host, the destination is not written), and the
\* capture returns True exactly when the file the portal named was copied to
\* the destination.
C24_PortalCaptureNeverRaises ==
    \A p \in callers :
        LET c == call[p]
            P == PortalRequests(c)
            n == Len(c.trace)
        IN  /\ c.captured["portal"] \in {"none", "true", "false"}
            /\ Cardinality(P) <= 1
            /\ P # {} => c.captured["portal"] # "none"
            /\ (c.captured["portal"] # "none" /\ c.pc # "full_begin") => P # {}
            /\ \A i \in P : c.trace[i].res = "copied" <=> c.captured["portal"] = "true"
            /\ (c.captured["portal"] = "true" /\ c.pc # "full_begin") =>
                    /\ Exists(files, c.filepath)
                    /\ files[c.filepath] = c.req
            /\ (n > 0 /\ n \in P /\ c.trace[n].res # "copied") =>
                    /\ c.last \in PortalFailures
                    /\ c.captured["portal"] = "false"
                    /\ c.outcome.kind = "none"
                    /\ c.pc = "probe" /\ Backends[c.backend] = "native"
                    /\ Exists(files, c.filepath) => files[c.filepath] # c.req

\* the Screenshot request of a window capture timed out; the capture
\* returned False and the manager stands at the native backend
C24_Witness ==
    \E p \in callers :
        /\ call[p].last = "timeout"
        /\ call[p].mode = "window"
        /\ call[p].trace[Len(call[p].trace)].by = "XDGPortalBackend"
        /\ call[p].captured["portal"] = "false"
        /\ call[p].pc = "probe"

(***************************************************************************)
(* C25                                                                     *)
(***************************************************************************)
\* the step sent the portal backend a Screenshot request for caller p
PortalRequestSent(p) ==
    /\ Len(call'[p].trace) = Len(call[p].trace) + 1
    /\ call'[p].trace[Len(call'[p].trace)].by = "XDGPortalBackend"

\* C25: a capture_screenshot request in which the portal backend's capture
\* was denied sends no other capture request to the portal backend before it
\* completes: no step of a call whose Screenshot request was denied sends
\* the portal a request.  (The degradation to the full screen calls
\* BackendManager.capture_screen, which starts again at the portal backend.)
C25_NoPortalRequestAfterDenial ==
    [][\A p \in callers : call[p].denied => ~PortalRequestSent(p)]_vars

(***************************************************************************)
(* C26                                                                     *)
(***************************************************************************)
\* the session-bus lookups remember_active_window made
RememberEvents(c) ==
    {i \in 1..Len(c.trace) : c.trace[i].by = "remember_active_window"}

\* C26: in a capture_screenshot call with a window id, the lookup of
\* remember is the first external call (no probe, capture tool invocation or
\* activation comes before it, and while it has not run none was made), and
\* the activation restore issues is the last external call: it comes after
\* the window attempts and after the full-screen degradation, and the call
\* is complete once restore ran.
C26_RememberFirstRestoreLast ==
    \A p \in callers :
        LET c == call[p]
        IN  WindowCall(p) =>
                /\ c.pc = "remember" => (c.trace = <<>> /\ ~c.fellback)
                /\ (c.trace # <<>> /\ ~c.fellback) => 1 \in RememberEvents(c)
                /\ \A i \in RememberEvents(c) : i = 1
                /\ \A i \in RestoreEvents(c) : i = Len(c.trace)
                /\ RestoreEvents(c) # {} => c.restored
                /\ c.restored => Done(p)
                /\ c.fellback => RememberEvents(c) = {}

\* the window capture failed, the call degraded to the full screen, a tool
\* of the native backend wrote the file, and the activation of restore is
\* the last external call of the completed call
C26_Witness ==
    \E p \in callers :
        LET n == Len(call[p].trace)
        IN  /\ Done(p) /\ WindowCall(p) /\ call[p].fellback
            /\ n > 1
            /\ call[p].trace[n].by = "restore_previous_window"
            /\ call[p].trace[n - 1].by = "GNOMEShellBackend.capture_screen"
            /\ call[p].trace[n - 1].res = "wrote"

(***************************************************************************)
(* C27                                                                     *)
(***************************************************************************)
\* the external calls of a full-screen capture: a portal request for the
\* screen, a tool of the native backend's capture_screen
ScreenCaptureCalls(c) ==
    {i \in 1..Len(c.trace) :
        \/ c.trace[i].op = "portal_screen"
        \/ c.trace[i].by = "GNOMEShellBackend.capture_screen"}

\* the paths a window capture of window wid writes to
WindowArtifacts(wid) ==
    {"screenshot_window_" \o wid \o "_" \o t \o ".png" : t \in {"0", "1", "2", "3"}}

\* C27: in a capture_screenshot call with a window id the full-screen
\* capture is attempted only after BackendManager.capture_window returned
\* False (every backend was unavailable or its window capture failed); when
\* a backend's window capture succeeded no full-screen capture is attempted,
\* and the image returned is what the window's artifact file holds.
C27_FullScreenOnlyAfterWindowCaptureFailed ==
    \A p \in callers :
        LET c == call[p]
        IN  WindowCall(p) =>
                /\ (c.mode = "screen" \/ c.pc = "full_begin") => c.fellback
                /\ ScreenCaptureCalls(c) # {} => c.fellback
                /\ (c.fellback /\ c.pc = "full_begin") =>
                        \A b \in BackendNames : UnavailableOrFailed(c, b)
                /\ (c.mode = "window" /\ \E b \in BackendNames : c.captured[b] = "true") =>
                        /\ ~c.fellback
                        /\ c.pc \in {"captured", "finally", "done"}
                        /\ ScreenCaptureCalls(c) = {}
                        /\ c.filepath \in WindowArtifacts(c.window_id)
                        /\ c.pc \in {"finally", "done"} =>
                                /\ c.outcome.kind = "image"
                                /\ c.outcome.path = c.filepath
                                /\ c.outcome.content = files[c.filepath]

\* the portal was unavailable, the native backend captured the window, and
\* the completed call returned the window's artifact with no full-screen
\* capture attempted
C27_Witness ==
    \E p \in callers :
        /\ Done(p) /\ WindowCall(p) /\ ~call[p].fellback
        /\ call[p].avail["portal"] = "no"
        /\ call[p].captured["native"] = "true"
        /\ call[p].outcome.kind = "image"
        /\ call[p].outcome.path \in WindowArtifacts(call[p].window_id)
        /\ ScreenCaptureCalls(call[p]) = {}

(***************************************************************************)
(* C28                                                                     *)
(***************************************************************************)
\* the title derived from the executable of the process with this id, for
\* the processes of the table whose executable name matches the catalogue
\* of GUI applications; "" for the others (bash, and the line that has no
\* command column)
GuiTitle(pid) ==
    CASE pid = "101" -> "Firefox"
      [] pid = "102" -> "Firefox"
      [] pid = "104" -> "Vim"
      [] OTHER -> ""

\* the processes the scan is to keep: catalogued, and the first of their title
FirstOfTitle(lines) ==
    {i \in 1..Len(lines) :
        /\ GuiTitle(lines[i].pid) # ""
        /\ \A j \in 1..(i - 1) : GuiTitle(lines[j].pid) # GuiTitle(lines[i].pid)}

\* C28: the list the process scan returns has no two entries of the same
\* title: it holds, in the order of the process table, one entry for the
\* first process of each derived title among the processes whose executable
\* name matches the catalogue, with the process id as its id.
C28_ProcessScanKeepsFirstPerTitle ==
    (lw_pc = "done" /\ lw_out.kind = "list" /\ lw_out.via = "processes") =>
        LET lines == ps_result.lines
            kept == FirstOfTitle(lines)
            list == lw_out.list
        IN  /\ \A a, b \in 1..Len(list) : a # b => list[a].title # list[b].title
            /\ Len(list) = Cardinality(kept)
            /\ \A i \in kept :
                    LET k == Cardinality({j \in kept : j <= i})
                    IN  /\ list[k].id = lines[i].pid
                        /\ list[k].title = GuiTitle(lines[i].pid)

\* two firefox processes are running, /opt/Firefox before /usr/bin/firefox;
\* the scan returned the first alone, under its process id
C28_Witness ==
    /\ lw_pc = "done" /\ lw_out.via = "processes"
    /\ Len(ps_result.lines) = 2
    /\ ps_result.lines[1].pid = "102"
    /\ ps_result.lines[2].pid = "101"
    /\ lw_out.list = <<[id |-> "102", title |-> "Firefox"]>>

(***************************************************************************)
(* C29                                                                     *)
(***************************************************************************)
\* the step runs the finally block of the window call of caller p
RestoreStep(p) ==
    /\ WindowCall(p)
    /\ call[p].pc = "finally"
    /\ call'[p].pc = "done"

\* C29: two capture_screenshot calls with a window id that overlap race on
\* the one remembered-window slot: the restore of a call acts on what the
\* slot holds when it runs, whatever the call's own remember stored: it
\* activates the id in the slot (an id stored by the remember of either
\* call) and issues no activation when the slot is empty.  The witness is
\* the interleaving in which a call's restore activates the window the
\* other call remembered and the other call's restore then finds the slot
\* cleared.
C29_RestoreActsOnTheSharedSlot ==
    /\ [](\A p \in callers :
            \A i \in RestoreEvents(call[p]) :
                \E q \in callers : call[p].trace[i].arg = call[q].remembered)
    /\ [][\A p \in callers :
            RestoreStep(p) =>
                IF Truthy(previous_window)
                THEN call'[p].trace =
                        Append(call[p].trace,
                               Event("restore_previous_window", "activate",
                                     previous_window, Coarse(call'[p].last)))
                ELSE call'[p].trace = call[p].trace]_vars

\* the remember of one call found no window while the other call's stored
\* window 12; the restore of the first activated 12, and the restore of the
\* other found the slot cleared and issued no activation
C29_Witness ==
    \E p, q \in callers :
        /\ p # q
        /\ Done(p) /\ Done(q) /\ WindowCall(p) /\ WindowCall(q)
        /\ call[p].remembered = None
        /\ call[q].remembered = "12"
        /\ \E i \in RestoreEvents(call[p]) :
                call[p].trace[i].arg = "12" /\ call[p].trace[i].res = "ok"
        /\ RestoreEvents(call[q]) = {}

(***************************************************************************)
(* C30                                                                     *)
(***************************************************************************)
\* C30: when the Host serializes the requests, the restore of a request
\* never activates an id an earlier request stored: from its remember to its
\* restore the slot holds what the request's own remember stored (None when
\* it found no window), whatever an earlier request left in the slot, and
\* every activation restore issues is of that id, none being issued when it
\* is None.
C30_RestoreUsesTheRequestsOwnRemember ==
    \A p \in callers :
        WindowCall(p) =>
            /\ (call[p].pc \notin {"idle", "remember"} /\ ~call[p].restored) =>
                    previous_window = call[p].remembered
            /\ \A i \in RestoreEvents(call[p]) :
                    /\ call[p].remembered # None
                    /\ call[p].trace[i].arg = call[p].remembered
            /\ (Done(p) /\ call[p].remembered = None) => RestoreEvents(call[p]) = {}

\* the first request remembered window 12 and its restore failed, which
\* left 12 in the slot; the remember of the second request found no window;
\* the second request completed without an activation of 12, the slot empty
C30_Witness ==
    /\ Done(1) /\ Done(2)
    /\ call[1].req = 1 /\ call[2].req = 2
    /\ call[1].remembered = "12"
    /\ \E i \in RestoreEvents(call[1]) : call[1].trace[i].res = "fail"
    /\ call[2].remembered = None
    /\ RestoreEvents(call[2]) = {}
    /\ previous_window = None

(***************************************************************************)
(* C31                                                                     *)
(***************************************************************************)
\* capture_screenshot was called without a window id
FullScreenCall(p) == call[p].pc # "idle" /\ ~Truthy(call[p].window_id)

\* the focused-window lookups and the window activations a call issued
FocusEvents(c) ==
    {i \in 1..Len(c.trace) :
        c.trace[i].by = "remember_active_window" \/ c.trace[i].op = "activate"}

\* C31: a capture_screenshot call without a window id leaves the slot of the
\* window state manager as it is and issues no focused-window lookup and no
\* window activation, whether it returns an image or raises: no step of such
\* a call, its start and its finally block included, changes the slot or the
\* focus on the session bus, and its external calls hold no lookup of
\* remember_active_window and no Activate.
C31_FullScreenCallLeavesFocusStateAlone ==
    /\ [](\A p \in callers : FullScreenCall(p) => FocusEvents(call[p]) = {})
    /\ [][\A p \in callers :
            (call'[p] # call[p] /\ ~Truthy(call'[p].window_id)) =>
                /\ previous_window' = previous_window
                /\ windows_data' = windows_data]_vars

\* an earlier window capture left an id in the slot (its restore failed);
\* the full-screen call that followed raised, every backend having failed,
\* and the slot still holds the id
C31_Witness ==
    \E p \in callers :
        /\ Done(p) /\ FullScreenCall(p)
        /\ call[p].req = 2
        /\ call[p].outcome.kind = "error"
        /\ Truthy(previous_window)

(***************************************************************************)
(* C32                                                                     *)
(***************************************************************************)
\* the activations of the target that GNOMEShellBackend.capture_window issued
TargetActivations(c) ==
    {i \in 1..Len(c.trace) :
        /\ c.trace[i].by = "GNOMEShellBackend.capture_window"
        /\ c.trace[i].op = "activate"}

UnknownTarget(p) ==
    WindowCall(p) /\ ~KnownWindow(windows_data, call[p].window_id)

\* the calls capture_window made of the legacy window screenshot and of the
\* interactive selection (slurp, and the grim on what slurp printed)
LegacyWindowCalls(c) ==
    {i \in 1..Len(c.trace) :
        \/ c.trace[i].op \in {"gnome_screenshot_window", "slurp"}
        \/ c.trace[i].op = "grim_with_geometry" /\ c.trace[i].arg = "slurp"}

\* C33 as stated: every request for a window id the session bus does not
\* know ends without an error to the Host, degraded to a full-screen capture.
\* (The backend manager asks the portal backend first, whose interactive
\* request does not use the id: when it is granted the window capture
\* succeeds and nothing degrades; and the degraded capture can fail.)
C33_UnknownIdAlwaysDegrades ==
    \A p \in callers :
        (Done(p) /\ UnknownTarget(p)) =>
            /\ call[p].outcome.kind # "error"
            /\ call[p].fellback

\* C33, amended: a window id the session bus does not know is not rejected.
\* Its geometry is never resolved and no exact-geometry capture is made; each
\* activation of the target fails; the native backend's capture_window, once
\* its lookup ran, returns False without the legacy window screenshot and
\* without the interactive selection; the request then degrades to a
\* full-screen capture, unless the portal backend captured the window; and
\* the Host gets an error only when the degraded capture failed too.
C33_UnknownIdDegradesUnlessPortalCaptured ==
    \A p \in callers :
        UnknownTarget(p) =>
            /\ call[p].geometry = None
            /\ GeometryCaptures(call[p]) = {}
            /\ \A i \in TargetActivations(call[p]) : call[p].trace[i].res = "fail"
            /\ LegacyWindowCalls(call[p]) = {}
            /\ call[p].mode = "window" => call[p].captured["native"] # "true"
            /\ GeometryLookups(call[p]) # {} =>
                    /\ call[p].pc \in {"native_focus", "exhausted"}
                    /\ call[p].pc = "exhausted" => call[p].captured["native"] = "false"
            /\ Done(p) =>
                    \/ call[p].fellback /\ call[p].mode = "screen"
                    \/ /\ call[p].mode = "window"
                       /\ call[p].captured["portal"] = "true"
                       /\ call[p].outcome.kind = "image"
            /\ (Done(p) /\ call[p].outcome.kind = "error") => call[p].fellback

\* the portal backend was unavailable; for window 104, which the bus does not
\* list, the lookup found no geometry and the activation failed; the native
\* backend returned False, its last external call being that activation, and
\* the request is about to degrade to the full screen
C33_Witness ==
    \E p \in callers :
        /\ UnknownTarget(p)
        /\ call[p].window_id = "104"
        /\ Len(windows_data) > 0
        /\ call[p].pc = "exhausted" /\ call[p].mode = "window"
        /\ call[p].avail["portal"] = "no"
        /\ call[p].captured["native"] = "false"
        /\ \E i \in GeometryLookups(call[p]) : call[p].trace[i].res = "ok"
        /\ TargetActivations(call[p]) = {Len(call[p].trace)}

(***************************************************************************)
(* C34                                                                     *)
(***************************************************************************)
\* C34: whenever a capture is reported successful, the file at its
\* destination was written by a capture strategy during that same call: the
\* bytes returned to the Host are of a file this request wrote, never of one
\* an earlier request left at the same path.  (The code takes filepath.exists()
\* after a tool returned as the success of that tool, and the path of two
\* captures of the same kind and window id within one second is the same.)
C34_ReturnedBytesAreOfThisCall ==
    \A p \in callers :
        (Done(p) /\ call[p].outcome.kind = "image") =>
            call[p].outcome.content = call[p].req

====
